---- MODULE Spec2Model ----
(***************************************************************************)
(* A model of pysqlsync's type-to-catalog conversion                        *)
(* (pysqlsync/formation/py_to_sql.py): DataclassConverter maps the fields  *)
(* of data-class types to SQL data types, compiles entity types to tables, *)
(* and assembles tables, enumeration lookup tables, join tables, struct     *)
(* types and enum types into a catalog of namespaces.                      *)
(*                                                                         *)
(* Python types are modelled as tagged records (Prim, Cls, ListOf,         *)
(* UnionOf, Annot); a class is identified by its module and its name, as   *)
(* __module__ and __name__ do in the source.  The classes of the model are *)
(* a fixed set of declarations in three modules, plus one entity, Probe,   *)
(* whose second field is drawn from ProbeDecls by Init.                    *)
(***************************************************************************)
EXTENDS Integers, Sequences, FiniteSets, TLC

VARIABLES
    opts,           \* DataclassConverterOptions of the converter
    namespaces,     \* options.namespaces: the NamespaceMapping dictionary
    probe,          \* the declared type of Probe's field "f"
    entity_types,   \* the argument of dataclasses_to_catalog
    pc,             \* position in dataclasses_to_catalog
    ref_sorted,     \* referenced_types, in iteration order, stably sorted by __name__
    table_types,    \* the entity types among them, sorted by __name__
    enums,          \* dict: module -> list of EnumType
    structs,        \* dict: module -> list of StructType
    tables,         \* dict: module -> list of Table
    catalog,        \* the returned Catalog (a sequence of namespaces)
    error,          \* the exception that ended the call, or NoError
    run,            \* the number of the call on the same converter and input
    previous,       \* the Catalog the preceding call returned
    call_type,      \* the argument of a call of one of the type-mapping functions
    call_result,    \* what that call returned or raised
    dictionary,     \* the argument of NamespaceMapping(...)
    mapping,        \* the NamespaceMapping constructed from it, or the exception
    dialect,        \* the dialect whose generator or object class is in use
    target,         \* the argument of the call made on it
    output          \* what that call returned or raised

vars == <<opts, namespaces, probe, entity_types, pc, ref_sorted, table_types, enums,
          structs, tables, catalog, error, run, previous, call_type, call_result,
          dictionary, mapping, dialect, target, output>>

\* The variables dataclasses_to_catalog does not touch.
\* The variables of the calls made on a dialect.
renders == <<dialect, target, output>>

calls == <<call_type, call_result, dictionary, mapping, renders>>

(***************************************************************************)
(* Bounds of the model.                                                    *)
(***************************************************************************)
\* How many entity types the input list holds beside Probe.
MaxOthers == 1

(***************************************************************************)
(* Program constants.                                                      *)
(***************************************************************************)
ENUM_NAME_LENGTH == 64

\* Python's None (a namespace of None is the default namespace).
None == "<None>"

(***************************************************************************)
(* Python types.                                                           *)
(***************************************************************************)
Prim(n) == [k |-> "prim", n |-> n]
Cls(c) == [k |-> "class", c |-> c]
ListOf(e) == [k |-> "list", e |-> e]
UnionOf(m) == [k |-> "union", m |-> m]
Annot(b, meta) == [k |-> "annot", b |-> b, meta |-> meta]

NoneType == Prim("NoneType")
Optional(T) == UnionOf(<<T, NoneType>>)

\* Annotation items.  PrimaryKey, Identity and Unique are the tags of
\* pysqlsync.model.key_types; MaxLength is strong_typing.auxiliary.MaxLength.
PrimaryKeyTag == [tag |-> "PrimaryKey"]
IdentityTag == [tag |-> "Identity"]
UniqueTag == [tag |-> "Unique"]
MaxLength(n) == [tag |-> "MaxLength", v |-> n]
KeyTags == {PrimaryKeyTag, IdentityTag, UniqueTag}

PrimaryKey(T) == Annot(T, <<PrimaryKeyTag>>)
Unique(T) == Annot(T, <<UniqueTag>>)

ENUM_LABEL_TYPE == Annot(Prim("str"), <<MaxLength(ENUM_NAME_LENGTH)>>)

(***************************************************************************)
(* The classes of the model: three Python modules.  "tables" holds the     *)
(* declarations of tests/tables.py that the tests of test_generator.py use *)
(* (Address, Person, WorkflowState, EnumTable, Coordinates, Location) and  *)
(* Probe; "extra" holds a second entity named Address; "shared" holds only  *)
(* an enumeration and structs, and no entity.  The structs Region and      *)
(* Shape reference structs of the other module; the entity Team has a list *)
(* of the entity Team_member.                                              *)
(***************************************************************************)
Class(mod, name) == [mod |-> mod, name |-> name]

Address == Class("tables", "Address")
Person == Class("tables", "Person")
EnumTable == Class("tables", "EnumTable")
Location == Class("tables", "Location")
Coordinates == Class("tables", "Coordinates")
WorkflowState == Class("tables", "WorkflowState")
Single == Class("tables", "Single")
Probe == Class("tables", "Probe")
Address2 == Class("extra", "Address")
Kind == Class("shared", "Kind")
Point == Class("shared", "Point")
Region == Class("tables", "Region")
Shape == Class("shared", "Shape")
Team == Class("tables", "Team")
Team_member == Class("tables", "Team_member")

EnumClasses == {WorkflowState, Single, Kind}
DataClasses ==
    {Address, Person, EnumTable, Location, Coordinates, Probe, Address2, Point, Region,
     Shape, Team, Team_member}
Modules == {"tables", "extra", "shared"}

\* The values of an enumeration, in declaration order ([e.value for e in typ]).
EnumValues(c) ==
    CASE c = WorkflowState -> <<"active", "inactive", "deleted">>
      [] c = Single -> <<"only">>
      [] c = Kind -> <<"small", "large">>

\* A field without a declared default (dataclasses.MISSING).
MISSING == "<MISSING>"
Field(name, type) == [name |-> name, type |-> type, default |-> MISSING]

\* dataclass_fields(cls): the declared fields, in declaration order.
dataclass_fields(c) ==
    CASE c = Address ->
            <<Field("id", PrimaryKey(Prim("int"))), Field("city", Prim("str")),
              Field("state", Optional(Prim("str")))>>
      [] c = Person ->
            <<Field("id", PrimaryKey(Prim("int"))), Field("address", Cls(Address))>>
      [] c = EnumTable ->
            <<Field("id", PrimaryKey(Prim("int"))), Field("state", Cls(WorkflowState)),
              Field("optional_state", Optional(Cls(WorkflowState)))>>
      [] c = Location ->
            <<Field("id", PrimaryKey(Prim("int"))), Field("coords", Cls(Coordinates))>>
      [] c = Coordinates ->
            <<Field("lat", Prim("float")), Field("long", Prim("float"))>>
      [] c = Address2 ->
            <<Field("id", PrimaryKey(Prim("int32"))), Field("name", Unique(Prim("str")))>>
      [] c = Point ->
            <<Field("x", Prim("int")), Field("kind", Cls(Kind))>>
      [] c = Region ->
            <<Field("center", Cls(Point)), Field("frame", Cls(Shape))>>
      [] c = Shape ->
            <<Field("origin", Cls(Coordinates))>>
      [] c = Team ->
            <<Field("id", PrimaryKey(Prim("int"))),
              Field("member_id", ListOf(Cls(Team_member)))>>
      [] c = Team_member ->
            <<Field("id", PrimaryKey(Prim("int")))>>
      [] c = Probe ->
            <<Field("id", PrimaryKey(Prim("int"))), Field("f", probe)>>

\* The declarations Probe's field f is drawn from.
ProbeDecls ==
    { Prim("str"), Optional(Prim("str")), Unique(Prim("str")),
      Annot(Prim("str"), <<MaxLength(8)>>),
      Cls(WorkflowState), Optional(Cls(WorkflowState)), Unique(Cls(WorkflowState)),
      Cls(Single), Cls(Kind),
      UnionOf(<<Cls(WorkflowState), Prim("str")>>),
      UnionOf(<<Cls(Kind), Prim("str"), NoneType>>),
      UnionOf(<<Cls(WorkflowState), Cls(Kind)>>),
      Cls(Address), Optional(Cls(Address)), Cls(Address2),
      UnionOf(<<Cls(Address), Cls(Person)>>),
      UnionOf(<<Cls(Address), Cls(Address2)>>),
      ListOf(Prim("str")), ListOf(Cls(WorkflowState)), ListOf(Cls(Kind)),
      ListOf(Cls(Address)), ListOf(Cls(Address2)), Optional(ListOf(Cls(Address))),
      Cls(Coordinates), ListOf(Cls(Coordinates)), Cls(Point), Cls(Region), Cls(Team) }

\* The entity types the input list may hold beside Probe.
OtherEntities == {Address, Person, EnumTable, Location, Address2}

\* Alphabetical order of the class names (the sort key e.__name__).
NameOrder ==
    <<"Address", "Coordinates", "EnumTable", "Kind", "Location", "Person", "Point",
      "Probe", "Region", "Shape", "Single", "Team", "Team_member", "WorkflowState">>
NameRank(n) == CHOOSE i \in 1..Len(NameOrder) : NameOrder[i] = n

(***************************************************************************)
(* Type inspection (strong_typing.inspection, pysqlsync.formation          *)
(* .inspection, pysqlsync.model.properties).                               *)
(***************************************************************************)
unwrap_annotated_type(T) == IF T.k = "annot" THEN T.b ELSE T

is_type_enum(T) ==
    LET u == unwrap_annotated_type(T) IN u.k = "class" /\ u.c \in EnumClasses

is_dataclass_type(T) ==
    LET u == unwrap_annotated_type(T) IN u.k = "class" /\ u.c \in DataClasses

SeqToSet(s) == {s[i] : i \in 1..Len(s)}

\* A union in the sense of is_type_union: Optional[T] alone is not one.
is_type_union(T) ==
    LET u == unwrap_annotated_type(T)
    IN  u.k = "union" /\ (Len(u.m) > 2 \/ NoneType \notin SeqToSet(u.m))

unwrap_union_types(T) == unwrap_annotated_type(T).m

is_type_optional(T) ==
    LET u == unwrap_annotated_type(T)
    IN  u.k = "union" /\ NoneType \in SeqToSet(u.m)

unwrap_optional_type(T) ==
    LET u == unwrap_annotated_type(T)
        rest == SelectSeq(u.m, LAMBDA x : x # NoneType)
    IN  IF Len(rest) = 1 THEN rest[1] ELSE UnionOf(rest)

is_generic_list(T) == unwrap_annotated_type(T).k = "list"

\* The item type of a list type; the annotation of an annotated list is kept
\* on the item type.
unwrap_generic_list(T) ==
    IF T.k = "annot" THEN Annot(T.b.e, T.meta) ELSE T.e

\* get_field_properties(field.type): the type without the Optional wrapper
\* and without the key tags, with the flags they stand for.
get_field_properties(T) ==
    LET nullable == T.k # "annot" /\ is_type_optional(T)
        inner == IF nullable THEN unwrap_optional_type(T) ELSE T
        meta == IF inner.k = "annot" THEN inner.meta ELSE <<>>
        rest == SelectSeq(meta, LAMBDA x : x \notin KeyTags)
        plain == unwrap_annotated_type(inner)
    IN  [ plain_type |-> plain,
          field_type |-> IF Len(rest) > 0 THEN Annot(plain, rest) ELSE plain,
          nullable |-> nullable,
          is_primary |-> PrimaryKeyTag \in SeqToSet(meta),
          is_identity |-> IdentityTag \in SeqToSet(meta),
          is_unique |-> UniqueTag \in SeqToSet(meta) ]

dataclass_has_primary_key(c) ==
    \E i \in 1..Len(dataclass_fields(c)) :
        get_field_properties(dataclass_fields(c)[i].type).is_primary

PrimaryKeyField(c) ==
    LET fs == dataclass_fields(c)
        i == CHOOSE j \in 1..Len(fs) :
                /\ get_field_properties(fs[j].type).is_primary
                /\ \A h \in 1..(j - 1) : ~get_field_properties(fs[h].type).is_primary
    IN  fs[i]

dataclass_primary_key_name(c) == PrimaryKeyField(c).name

dataclass_primary_key_type(c) == get_field_properties(PrimaryKeyField(c).type).plain_type

is_entity_type(T) ==
    is_dataclass_type(T) /\ dataclass_has_primary_key(unwrap_annotated_type(T).c)

is_struct_type(T) ==
    is_dataclass_type(T) /\ ~dataclass_has_primary_key(unwrap_annotated_type(T).c)

SimplePrims ==
    { "bool", "int", "float", "str", "int8", "int16", "int32", "int64", "uint8",
      "uint16", "uint32", "uint64", "float32", "float64", "Decimal", "datetime",
      "date", "time", "timedelta", "UUID", "JsonType", "IPv4Address", "IPv6Address" }

is_simple_type(T) ==
    LET u == unwrap_annotated_type(T)
    IN  (u.k = "prim" /\ u.n \in SimplePrims) \/ is_type_enum(u)

\* enum_value_types(enum_type): the Python types of the values.
enum_value_types(c) == {"str"}

(***************************************************************************)
(* Errors, identifiers and SQL data types.                                 *)
(***************************************************************************)
NoError == [t |-> "ok"]
Err(exc, msg) == [t |-> "error", exc |-> exc, msg |-> msg]
IsErr(x) == "t" \in DOMAIN x /\ x.t = "error"

\* NamespaceMapping.get: the namespace a module is mapped to (None is the
\* default namespace), or a ValueError for a module without a mapping.
NamespaceGet(module_name) ==
    IF module_name \in DOMAIN namespaces
    THEN [t |-> "ns", ns |-> namespaces[module_name]]
    ELSE Err("ValueError", "expected: database schema name mapping for module")

QualifiedId(ns, id) == [t |-> "QualifiedId", ns |-> ns, id |-> id]
PrefixedId(ns, id) == [t |-> "PrefixedId", ns |-> ns, id |-> id]
GlobalId(id) == [t |-> "GlobalId", ns |-> None, id |-> id]

\* compact_id of an identifier, with create_qualified_prefix's replacement of
\* "." by "_" applied.
CompactPrefix(qid) ==
    IF qid.ns = None THEN qid.id
    ELSE IF qid.t = "QualifiedId" THEN qid.ns \o "_" \o qid.id
    ELSE qid.ns \o "__" \o qid.id

create_qualified_id(module_name, object_name) ==
    LET mapped == NamespaceGet(module_name)
    IN  IF IsErr(mapped) THEN mapped
        ELSE IF opts.qualified_names THEN QualifiedId(mapped.ns, object_name)
        ELSE PrefixedId(mapped.ns, object_name)

create_qualified_prefix(c) ==
    LET id == create_qualified_id(c.mod, c.name)
    IN  IF IsErr(id) THEN id ELSE [t |-> "prefix", s |-> CompactPrefix(id)]

SqlBooleanType == [t |-> "boolean"]
SqlIntegerType(w) == [t |-> "integer", width |-> w]
SqlRealType == [t |-> "real"]
SqlDoubleType == [t |-> "double"]
SqlFloatType == [t |-> "float"]
SqlDecimalType == [t |-> "decimal"]
SqlTimestampType == [t |-> "timestamp"]
SqlDateType == [t |-> "date"]
SqlTimeType == [t |-> "time"]
SqlIntervalType == [t |-> "interval"]
SqlUuidType == [t |-> "uuid"]
SqlJsonType == [t |-> "json"]
\* limit 0 stands for no limit (limit=None)
SqlVariableCharacterType(limit) == [t |-> "varchar", limit |-> limit]
SqlEnumType(values) == [t |-> "enum", values |-> values]
SqlArrayType(elem) == IF IsErr(elem) THEN elem ELSE [t |-> "array", elem |-> elem]
SqlUserDefinedType(id) == IF IsErr(id) THEN id ELSE [t |-> "udt", id |-> id]

\* SqlDataType.parse_meta: a character type takes its limit from MaxLength;
\* any other item is refused.
parse_meta(sql_type, meta) ==
    IF sql_type.t = "varchar" /\ meta.tag = "MaxLength"
    THEN SqlVariableCharacterType(meta.v)
    ELSE Err("TypeError", "unrecognized Python type annotation")

\* compatible_type: the type that holds every value of the given types.
compatible_type(types) ==
    LET S == SeqToSet(types)
    IN  IF \E e \in S : IsErr(e) THEN CHOOSE e \in S : IsErr(e)
        ELSE IF Cardinality(S) = 1 THEN types[1]
        ELSE IF \A e \in S : e.t = "integer"
        THEN SqlIntegerType(CHOOSE w \in {e.width : e \in S} :
                                \A e \in S : e.width <= w)
        ELSE IF \A e \in S : e.t = "varchar"
        THEN IF \E e \in S : e.limit = 0 THEN SqlVariableCharacterType(0)
             ELSE SqlVariableCharacterType(CHOOSE l \in {e.limit : e \in S} :
                                               \A e \in S : e.limit <= l)
        ELSE Err("CompatibilityError", "incompatible types")

(***************************************************************************)
(* The type mapper.                                                        *)
(***************************************************************************)
PrimModule(n) == "builtins"

TypeModule(T) == IF T.k = "class" THEN T.c.mod ELSE PrimModule(T.n)
TypeName(T) == IF T.k = "class" THEN T.c.name ELSE T.n

\* isinstance(typ, type)
IsPythonClass(T) == T.k \in {"class", "prim"}

\* enum_value_type
enum_value_type(c) ==
    IF Cardinality(enum_value_types(c)) > 1
    THEN Err("TypeError", "inconsistent enumeration value types")
    ELSE LET vt == CHOOSE v \in enum_value_types(c) : TRUE
         IN  IF vt = "str" THEN ENUM_LABEL_TYPE ELSE Prim(vt)

\* The rules for the unannotated built-in types (the chain of "typ is ..."
\* tests); NoRule when none applies.
NoRule == [t |-> "norule"]

BuiltinRule(n) ==
    CASE n = "bool" -> SqlBooleanType
      [] n = "int" -> SqlIntegerType(8)
      [] n = "float" -> SqlDoubleType
      [] n = "int8" ->
            IF opts.extra_numeric_types THEN SqlUserDefinedType(GlobalId("int1"))
            ELSE SqlIntegerType(2)
      [] n = "int16" -> SqlIntegerType(2)
      [] n = "int32" -> SqlIntegerType(4)
      [] n = "int64" -> SqlIntegerType(8)
      [] n = "uint8" ->
            IF opts.extra_numeric_types THEN SqlUserDefinedType(GlobalId("uint1"))
            ELSE SqlIntegerType(2)
      [] n = "uint16" ->
            IF opts.extra_numeric_types THEN SqlUserDefinedType(GlobalId("uint2"))
            ELSE SqlIntegerType(2)
      [] n = "uint32" ->
            IF opts.extra_numeric_types THEN SqlUserDefinedType(GlobalId("uint4"))
            ELSE SqlIntegerType(4)
      [] n = "uint64" ->
            IF opts.extra_numeric_types THEN SqlUserDefinedType(GlobalId("uint8"))
            ELSE SqlIntegerType(8)
      [] n = "float32" -> SqlRealType
      [] n = "float64" -> SqlDoubleType
      [] n = "str" -> SqlVariableCharacterType(0)
      [] n = "Decimal" -> SqlDecimalType
      [] n = "datetime" -> SqlTimestampType
      [] n = "date" -> SqlDateType
      [] n = "time" -> SqlTimeType
      [] n = "timedelta" -> SqlIntervalType
      [] n = "UUID" -> SqlUuidType
      [] n = "JsonType" -> SqlJsonType
      [] n \in {"IPv4Address", "IPv6Address"} -> SqlUserDefinedType(GlobalId("inet"))
      [] OTHER -> NoRule

\* The provisional descriptor of the base type of an annotated type.
ProvisionalType(unadorned) ==
    IF unadorned \in DOMAIN opts.substitutions THEN opts.substitutions[unadorned]
    ELSE IF unadorned = Prim("str") THEN SqlVariableCharacterType(0)
    ELSE IF unadorned = Prim("float") THEN SqlFloatType
    ELSE IF unadorned = Prim("Decimal") THEN SqlDecimalType
    ELSE IF unadorned = Prim("datetime") THEN SqlTimestampType
    ELSE IF unadorned = Prim("time") THEN SqlTimeType
    ELSE NoRule

\* The loop "for meta in metadata": items of the skip set are passed over, the
\* others are applied with parse_meta; without a provisional descriptor the
\* first item that is not skipped raises.
RECURSIVE ApplyMetadata(_, _, _)
ApplyMetadata(sql_type, metadata, i) ==
    IF i > Len(metadata) \/ IsErr(sql_type) THEN sql_type
    ELSE IF metadata[i].tag \in opts.skip_annotations
    THEN ApplyMetadata(sql_type, metadata, i + 1)
    ELSE IF sql_type = NoRule
    THEN Err("TypeError", "unsupported annotated Python type")
    ELSE ApplyMetadata(parse_meta(sql_type, metadata[i]), metadata, i + 1)

RECURSIVE simple_type_to_sql_data_type(_)

\* Key type for storing enumeration values in a dedicated table.
_enumeration_key_type == simple_type_to_sql_data_type(Prim("int32"))

\* The enumeration rule, by enum mode.
EnumRule(c) ==
    IF IsErr(enum_value_type(c)) THEN enum_value_type(c)
    ELSE CASE opts.enum_mode = "TYPE" ->
                SqlUserDefinedType(create_qualified_id(c.mod, c.name))
           [] opts.enum_mode = "INLINE" -> SqlEnumType(EnumValues(c))
           [] opts.enum_mode = "RELATION" -> _enumeration_key_type
           [] opts.enum_mode = "CHECK" -> simple_type_to_sql_data_type(enum_value_type(c))

\* What follows the metadata loop: its descriptor if there is one, else the
\* enumeration rule on the unadorned type.
AfterMetadata(sql_type, rest) ==
    IF sql_type # NoRule THEN sql_type
    ELSE IF is_type_enum(rest) THEN EnumRule(rest.c)
    ELSE Err("TypeError", "not a simple type")

\* simple_type_to_sql_data_type without the look-up in the substitution table.
SimpleTypeNotSubstituted(typ) ==
    IF typ.k = "prim" /\ BuiltinRule(typ.n) # NoRule THEN BuiltinRule(typ.n)
    ELSE AfterMetadata(IF typ.k = "annot"
                       THEN ApplyMetadata(ProvisionalType(typ.b), typ.meta, 1)
                       ELSE NoRule,
                       unwrap_annotated_type(typ))

simple_type_to_sql_data_type(typ) ==
    IF typ \in DOMAIN opts.substitutions THEN opts.substitutions[typ]
    ELSE IF typ.k = "prim" /\ BuiltinRule(typ.n) # NoRule THEN BuiltinRule(typ.n)
    ELSE AfterMetadata(IF typ.k = "annot"
                       THEN ApplyMetadata(ProvisionalType(typ.b), typ.meta, 1)
                       ELSE NoRule,
                       unwrap_annotated_type(typ))

\* is_extensible_enum_type: a union all of whose members (None apart) are str
\* or enumeration types.
is_extensible_enum_type(typ) ==
    /\ is_type_union(typ)
    /\ \A member_type \in SeqToSet(unwrap_union_types(typ)) :
            \/ member_type = NoneType
            \/ unwrap_annotated_type(member_type) = Prim("str")
            \/ is_type_enum(unwrap_annotated_type(member_type))

\* unwrap_extensible_enum_type: the first enumeration member of the union.
unwrap_extensible_enum_type(typ) ==
    LET members == IF is_type_union(typ) THEN unwrap_union_types(typ) ELSE <<>>
        idx == {i \in 1..Len(members) : is_type_enum(members[i])}
    IN  IF idx = {} THEN Err("TypeError", "extensible enum types are of the form E | str")
        ELSE [t |-> "type", type |-> members[CHOOSE i \in idx : \A j \in idx : i <= j]]

\* _is_relationship: True if the field expands into a separate relation.
_is_relationship(field_type) ==
    LET ft == unwrap_annotated_type(field_type)
    IN  /\ is_generic_list(ft)
        /\ \/ opts.enum_mode = "RELATION" /\ is_type_enum(unwrap_generic_list(ft))
           \/ is_entity_type(unwrap_generic_list(ft))

RECURSIVE member_to_sql_data_type(_, _)
\* "except CompatibilityError: raise TypeError(...)"
CompatibleUnion(merged) ==
    IF IsErr(merged) /\ merged.exc = "CompatibilityError"
    THEN Err("TypeError", "inconsistent union data types")
    ELSE merged

\* The list rule without its branch for entity item types.
ListRuleWithoutEntityBranch(typ, cls) ==
    LET item_type == unwrap_generic_list(typ)
    IN  IF is_simple_type(item_type) /\ opts.array_mode = "ARRAY"
        THEN IF opts.enum_mode = "RELATION" /\ is_type_enum(item_type)
             THEN Err("TypeError", "use a join table; list of enumeration type")
             ELSE SqlArrayType(simple_type_to_sql_data_type(item_type))
        ELSE IF is_simple_type(item_type) /\ opts.array_mode = "JSON"
        THEN member_to_sql_data_type(Prim("JsonType"), cls)
        ELSE IF IsPythonClass(item_type) /\ opts.array_mode = "ARRAY"
        THEN SqlArrayType(SqlUserDefinedType(
                 create_qualified_id(TypeModule(item_type), TypeName(item_type))))
        ELSE IF IsPythonClass(item_type) /\ opts.array_mode = "JSON"
        THEN member_to_sql_data_type(Prim("JsonType"), cls)
        ELSE Err("TypeError", "unsupported array data type")

\* The list rule of member_to_sql_data_type.
ListRule(typ, cls) ==
    LET item_type == unwrap_generic_list(typ)
    IN  IF is_simple_type(item_type) /\ opts.array_mode = "ARRAY"
        THEN IF opts.enum_mode = "RELATION" /\ is_type_enum(item_type)
             THEN Err("TypeError", "use a join table; list of enumeration type")
             ELSE SqlArrayType(simple_type_to_sql_data_type(item_type))
        ELSE IF is_simple_type(item_type) /\ opts.array_mode = "JSON"
        THEN member_to_sql_data_type(Prim("JsonType"), cls)
        ELSE IF is_entity_type(item_type)
        THEN Err("TypeError", "use a join table; list of entity type")
        ELSE IF IsPythonClass(item_type) /\ opts.array_mode = "ARRAY"
        THEN SqlArrayType(SqlUserDefinedType(
                 create_qualified_id(TypeModule(item_type), TypeName(item_type))))
        ELSE IF IsPythonClass(item_type) /\ opts.array_mode = "JSON"
        THEN member_to_sql_data_type(Prim("JsonType"), cls)
        ELSE Err("TypeError", "unsupported array data type")

\* The union rule taking the key type of the first entity without comparing
\* the key types.
UnionRuleOfFirstKey(typ, cls) ==
    LET member_types == unwrap_union_types(typ)
    IN  IF \A i \in 1..Len(member_types) : is_entity_type(member_types[i])
        THEN member_to_sql_data_type(dataclass_primary_key_type(member_types[1].c), cls)
        ELSE CompatibleUnion(compatible_type(
                 [i \in 1..Len(member_types) |->
                     member_to_sql_data_type(member_types[i], cls)]))

\* The union rule of member_to_sql_data_type.
UnionRule(typ, cls) ==
    LET member_types == unwrap_union_types(typ)
    IN  IF \A i \in 1..Len(member_types) : is_entity_type(member_types[i])
        THEN LET primary_key_types ==
                    {dataclass_primary_key_type(member_types[i].c) :
                        i \in 1..Len(member_types)}
             IN  IF Cardinality(primary_key_types) > 1
                 THEN Err("TypeError", "mismatching key types in discriminated union")
                 ELSE member_to_sql_data_type(CHOOSE x \in primary_key_types : TRUE, cls)
        ELSE CompatibleUnion(compatible_type(
                 [i \in 1..Len(member_types) |->
                     member_to_sql_data_type(member_types[i], cls)]))

member_to_sql_data_type(typ, cls) ==
    IF typ \in DOMAIN opts.substitutions THEN opts.substitutions[typ]
    ELSE IF is_simple_type(typ) THEN simple_type_to_sql_data_type(typ)
    ELSE IF is_entity_type(typ)
    THEN member_to_sql_data_type(
             dataclass_primary_key_type(unwrap_annotated_type(typ).c), typ)
    ELSE IF is_dataclass_type(typ) /\ opts.struct_mode = "TYPE"
    THEN SqlUserDefinedType(create_qualified_id(unwrap_annotated_type(typ).c.mod,
                                                unwrap_annotated_type(typ).c.name))
    ELSE IF is_dataclass_type(typ) /\ opts.struct_mode = "JSON"
    THEN member_to_sql_data_type(Prim("JsonType"), cls)
    ELSE IF is_generic_list(typ) THEN ListRule(typ, cls)
    ELSE IF is_extensible_enum_type(typ) THEN _enumeration_key_type
    ELSE IF is_type_union(typ) THEN UnionRule(typ, cls)
    ELSE IF IsPythonClass(typ)
    THEN SqlUserDefinedType(create_qualified_id(TypeModule(typ), TypeName(typ)))
    ELSE Err("TypeError", "unsupported data type")

(***************************************************************************)
(* Columns, constraints, tables and structs.                               *)
(***************************************************************************)
MapSeq(F(_), s) == [i \in 1..Len(s) |-> F(s[i])]

RECURSIVE Flatten(_)
Flatten(ss) == IF Len(ss) = 0 THEN <<>> ELSE Head(ss) \o Flatten(Tail(ss))

\* The first error of a sequence of results, or NoError.
FirstErr(results) ==
    IF \E i \in 1..Len(results) : IsErr(results[i])
    THEN results[CHOOSE i \in 1..Len(results) :
                    IsErr(results[i]) /\ \A j \in 1..(i - 1) : ~IsErr(results[j])]
    ELSE NoError

\* "except TypeError as e: raise TypeError(...) from e"
WrapTypeError(e, cls) ==
    IF e.exc = "TypeError"
    THEN [t |-> "error", exc |-> "TypeError", msg |-> "error processing data-class",
          cls |-> cls, cause |-> e.msg]
    ELSE e

\* The Python values of the model that are integers, as their digits; every
\* other value is a string.
IntValues == {"0"}

\* constant(value): the SQL literal of a Python value: the digits of an
\* integer, a string in quotes.
constant(v) == IF v \in IntValues THEN v ELSE "'" \o v \o "'"

Column(name, data_type, nullable, default, identity) ==
    IF IsErr(data_type) THEN data_type
    ELSE [t |-> "column", name |-> name, data_type |-> data_type, nullable |-> nullable,
          default |-> default, identity |-> identity]

member_to_column(field, cls) ==
    Column(field.name,
           member_to_sql_data_type(get_field_properties(field.type).field_type, Cls(cls)),
           get_field_properties(field.type).nullable,
           IF field.default # MISSING /\ field.default # None
           THEN constant(field.default) ELSE None,
           get_field_properties(field.type).is_identity)

ConstraintReference(table, columns) == [table |-> table, columns |-> columns]
UniqueConstraint(name, columns) ==
    [c |-> "unique", t |-> "constraint", name |-> name, columns |-> columns]
ForeignConstraint(name, columns, ref) ==
    IF IsErr(ref.table) THEN ref.table
    ELSE [c |-> "foreign", t |-> "constraint", name |-> name, columns |-> columns,
          refs |-> <<ref>>]
DiscriminatedConstraint(name, columns, refs) ==
    IF IsErr(FirstErr(MapSeq(LAMBDA r : r.table, refs)))
    THEN FirstErr(MapSeq(LAMBDA r : r.table, refs))
    ELSE [c |-> "discriminated", t |-> "constraint", name |-> name, columns |-> columns,
          refs |-> refs]
CheckConstraint(name, column, values) ==
    [c |-> "check", t |-> "constraint", name |-> name, column |-> column,
     values |-> values]

\* A table; an exception raised while its name, columns or constraints are
\* built takes its place.
Table(name, columns, primary_key, constraints) ==
    IF IsErr(name) THEN name
    ELSE IF IsErr(FirstErr(columns)) THEN FirstErr(columns)
    ELSE IF IsErr(FirstErr(constraints)) THEN FirstErr(constraints)
    ELSE [t |-> "table", name |-> name, columns |-> columns,
          primary_key |-> primary_key, constraints |-> constraints]

\* dataclass_fields_as_required: the fields with their types taken out of
\* Optional and of the key tags.
dataclass_fields_as_required(c) ==
    MapSeq(LAMBDA f : [name |-> f.name, type |-> get_field_properties(f.type).field_type,
                       default |-> f.default],
           dataclass_fields(c))

\* dataclass_enum_fields: the fields of an enumeration type.
dataclass_enum_fields(c) ==
    SelectSeq(dataclass_fields_as_required(c), LAMBDA f : is_type_enum(f.type))

DataclassEnumField(name, type) ==
    IF IsErr(type) THEN type ELSE [t |-> "field", name |-> name, type |-> type.type]

\* dataclass_extensible_enum_fields: the fields of an extensible enumeration
\* type, each with the enumeration type of its union (or the TypeError of
\* unwrap_extensible_enum_type).
dataclass_extensible_enum_fields(c) ==
    MapSeq(LAMBDA f : DataclassEnumField(f.name, unwrap_extensible_enum_type(f.type)),
           SelectSeq(dataclass_fields_as_required(c),
                     LAMBDA f : is_extensible_enum_type(f.type)))

\* The foreign key of an enumeration field to the lookup table's id column.
EnumForeignKey(table_name, enum_field) ==
    IF IsErr(enum_field) THEN enum_field
    ELSE ForeignConstraint("fk_" \o table_name \o "_" \o enum_field.name,
             <<enum_field.name>>,
             ConstraintReference(
                 create_qualified_id(unwrap_annotated_type(enum_field.type).c.mod,
                                     unwrap_annotated_type(enum_field.type).c.name),
                 <<"id">>))

\* The check constraint with the values left unquoted.
EnumCheckUnquoted(table_name, enum_field) ==
    CheckConstraint("ch_" \o table_name \o "_" \o enum_field.name, enum_field.name,
        EnumValues(unwrap_annotated_type(enum_field.type).c))

\* The Check constraint of an enumeration field.
EnumCheck(table_name, enum_field) ==
    CheckConstraint("ch_" \o table_name \o "_" \o enum_field.name, enum_field.name,
        MapSeq(LAMBDA v : constant(v),
               EnumValues(unwrap_annotated_type(enum_field.type).c)))

\* The constraints one field adds in dataclass_to_constraints' second loop.
FieldKeyConstraints(table_name, field) ==
    ( IF is_entity_type(field.type)
      THEN << ForeignConstraint("fk_" \o table_name \o "_" \o field.name,
                  <<field.name>>,
                  ConstraintReference(
                      create_qualified_id(unwrap_annotated_type(field.type).c.mod,
                                          unwrap_annotated_type(field.type).c.name),
                      <<dataclass_primary_key_name(
                            unwrap_annotated_type(field.type).c)>>)) >>
      ELSE <<>> )
    \o
    ( IF /\ is_type_union(field.type)
         /\ \A m \in SeqToSet(unwrap_union_types(field.type)) : is_entity_type(m)
      THEN << DiscriminatedConstraint("dk_" \o table_name \o "_" \o field.name,
                  <<field.name>>,
                  MapSeq(LAMBDA m : ConstraintReference(
                                        create_qualified_id(m.c.mod, m.c.name),
                                        <<dataclass_primary_key_name(m.c)>>),
                         unwrap_union_types(field.type))) >>
      ELSE <<>> )

\* The body of dataclass_to_constraints, given the table's prefix.
ConstraintsNamed(c, table_name) ==
    IF IsErr(table_name) THEN <<table_name>>
    ELSE MapSeq(LAMBDA f : UniqueConstraint("uq_" \o table_name.s \o "_" \o f.name,
                                            <<f.name>>),
                SelectSeq(dataclass_fields(c),
                          LAMBDA f : get_field_properties(f.type).is_unique))
         \o ( IF opts.foreign_constraints
              THEN Flatten(MapSeq(LAMBDA f : FieldKeyConstraints(table_name.s, f),
                                  dataclass_fields_as_required(c)))
              ELSE <<>> )

\* dataclass_to_constraints: the unique and foreign/primary key constraints
\* of a data-class (a sequence that may hold an error).
dataclass_to_constraints(c) == ConstraintsNamed(c, create_qualified_prefix(c))

\* The constraints dataclass_to_table collects, in order.
TableConstraints(c, table_name) ==
    ( IF opts.foreign_constraints THEN dataclass_to_constraints(c) ELSE <<>> )
    \o
    MapSeq(LAMBDA ef : EnumForeignKey(table_name, ef), dataclass_extensible_enum_fields(c))
    \o
    ( IF opts.enum_mode = "RELATION"
      THEN MapSeq(LAMBDA ef : EnumForeignKey(table_name, ef), dataclass_enum_fields(c))
      ELSE <<>> )
    \o
    ( IF opts.enum_mode = "CHECK"
      THEN MapSeq(LAMBDA ef : EnumCheck(table_name, ef), dataclass_enum_fields(c))
      ELSE <<>> )

\* dataclass_to_table once the columns are built.
TableOfColumns(c, columns, table_name) ==
    IF IsErr(FirstErr(columns)) THEN WrapTypeError(FirstErr(columns), c)
    ELSE IF IsErr(table_name) THEN table_name
    ELSE Table(create_qualified_id(c.mod, c.name), columns,
               <<dataclass_primary_key_name(c)>>, TableConstraints(c, table_name.s))

\* dataclass_to_table: converts a data-class with a primary key into a table,
\* or raises.
dataclass_to_table(c) ==
    TableOfColumns(c,
        MapSeq(LAMBDA f : member_to_column(f, c),
               SelectSeq(dataclass_fields(c), LAMBDA f : ~_is_relationship(f.type))),
        create_qualified_prefix(c))

StructMember(name, data_type) ==
    IF IsErr(data_type) THEN data_type
    ELSE [t |-> "member", name |-> name, data_type |-> data_type]

member_to_field(field, cls) ==
    StructMember(field.name,
        member_to_sql_data_type(get_field_properties(field.type).field_type, Cls(cls)))

StructType(c, name, members) ==
    IF IsErr(FirstErr(members)) THEN WrapTypeError(FirstErr(members), c)
    ELSE IF IsErr(name) THEN name
    ELSE [t |-> "struct", name |-> name, members |-> members]

\* dataclass_to_struct: converts a data-class without a primary key into a
\* struct type, or raises.
dataclass_to_struct(c) ==
    StructType(c, create_qualified_id(c.mod, c.name),
               MapSeq(LAMBDA f : member_to_field(f, c), dataclass_fields(c)))

\* The lookup table without its unique constraint.
EnumTableWithoutUnique(enum_type) ==
    Table(create_qualified_id(enum_type.mod, enum_type.name),
          << Column("id", _enumeration_key_type, FALSE, None, TRUE),
             Column("value", member_to_sql_data_type(ENUM_LABEL_TYPE, NoneType),
                    FALSE, None, FALSE) >>,
          <<"id">>,
          <<>>)

\* _enum_table: the lookup table of an enumeration type.
_enum_table(enum_type) ==
    Table(create_qualified_id(enum_type.mod, enum_type.name),
          << Column("id", _enumeration_key_type, FALSE, None, TRUE),
             Column("value", member_to_sql_data_type(ENUM_LABEL_TYPE, NoneType),
                    FALSE, None, FALSE) >>,
          <<"id">>,
          <<UniqueConstraint("uq_" \o enum_type.name, <<"value">>)>>)

(***************************************************************************)
(* dataclasses_to_catalog.                                                 *)
(***************************************************************************)
\* The classes a type names.
RECURSIVE TypeRefs(_)
TypeRefs(T) ==
    CASE T.k = "class" -> {T.c}
      [] T.k = "list" -> TypeRefs(T.e)
      [] T.k = "annot" -> TypeRefs(T.b)
      [] T.k = "union" -> UNION {TypeRefs(T.m[i]) : i \in 1..Len(T.m)}
      [] OTHER -> {}

\* The classes the fields of a class name.
ClassRefs(c) ==
    IF c \in DataClasses
    THEN UNION {TypeRefs(dataclass_fields(c)[i].type) : i \in 1..Len(dataclass_fields(c))}
    ELSE {}

\* get_referenced_types: the classes a class references, directly or not.
RECURSIVE Reachable(_)
Reachable(S) ==
    IF S \cup UNION {ClassRefs(c) : c \in S} = S THEN S
    ELSE Reachable(S \cup UNION {ClassRefs(c) : c \in S})

\* Only the classes the fields of a class name themselves.
DirectlyReferencedTypes(c) == ClassRefs(c)

get_referenced_types(c) == Reachable(ClassRefs(c))

\* The sequences that hold each element of S once.
RECURSIVE SeqPermutations(_)
SeqPermutations(S) ==
    IF S = {} THEN {<<>>}
    ELSE UNION {{<<x>> \o p : p \in SeqPermutations(S \ {x})} : x \in S}

\* The alphabetically first name of a non-empty set of classes.
FirstName(S) ==
    CHOOSE n \in {c.name : c \in S} : \A c \in S : NameRank(n) <= NameRank(c.name)

\* What list.sort(key=lambda e: e.__name__) can make of a set of classes: the
\* sort is stable, so classes of one name keep the order the set is iterated in,
\* which is any order.
RECURSIVE Orderings(_)
Orderings(S) ==
    IF S = {} THEN {<<>>}
    ELSE UNION {{p \o rest : rest \in Orderings({c \in S : c.name # FirstName(S)})} :
                    p \in SeqPermutations({c \in S : c.name = FirstName(S)})}

\* The classes of a set, by name (one order of a set's iteration).
NameOrderedClasses(S) == CHOOSE o \in Orderings(S) : TRUE

\* A dict of lists in insertion order: a sequence of [key, defs].
DictGet(d, key) ==
    IF \E i \in 1..Len(d) : d[i].key = key
    THEN d[CHOOSE i \in 1..Len(d) : d[i].key = key].defs
    ELSE <<>>
\* d.setdefault(key, []).append(x)
DictAppend(d, key, x) ==
    IF \E i \in 1..Len(d) : d[i].key = key
    THEN [i \in 1..Len(d) |->
            IF d[i].key = key THEN [key |-> key, defs |-> Append(d[i].defs, x)]
            ELSE d[i]]
    ELSE Append(d, [key |-> key, defs |-> <<x>>])

\* DictAppend for each [key, value] of items, in order.
RECURSIVE DictAppendAll(_, _)
DictAppendAll(d, items) ==
    IF Len(items) = 0 THEN d
    ELSE DictAppendAll(DictAppend(d, Head(items).key, Head(items).value), Tail(items))

\* The first error among the values of items.
ItemsErr(items) == FirstErr(MapSeq(LAMBDA it : it.value, items))

\* type_topological_sort's depth-first visit: a type follows the types it
\* references.
RECURSIVE TopoVisit(_, _)
RECURSIVE TopoVisitAll(_, _)
TopoVisit(n, ordered) ==
    IF n \in SeqToSet(ordered) THEN ordered
    ELSE Append(TopoVisitAll(NameOrderedClasses(ClassRefs(n)), ordered), n)
TopoVisitAll(ns, ordered) ==
    IF Len(ns) = 0 THEN ordered
    ELSE TopoVisitAll(Tail(ns), TopoVisit(Head(ns), ordered))

_topological_sort(class_types) ==
    SelectSeq(TopoVisitAll(class_types, <<>>), LAMBDA c : c \in SeqToSet(class_types))

Fail(e) ==
    /\ pc' = "failed"
    /\ error' = e

\* referenced_types = set(entity_types) and what they reference
CollectReferenced ==
    /\ pc = "start"
    /\ \E o \in Orderings(entity_types
                          \cup UNION {get_referenced_types(c) : c \in entity_types}) :
            ref_sorted' = o
    /\ pc' = "enums"
    /\ UNCHANGED <<opts, namespaces, probe, entity_types, run, previous, calls, table_types, enums, structs,
                   tables, catalog, error>>

EnumType(name, values) ==
    IF IsErr(name) THEN name
    ELSE [t |-> "enumtype", name |-> name, values |-> values]

\* QualifiedId(self.options.namespaces.get(module), name)
MappedQualifiedId(ns, name) == IF IsErr(ns) THEN ns ELSE QualifiedId(ns.ns, name)

\* "collect all enumeration types in alphabetical order"
CollectEnums ==
    /\ pc = "enums"
    /\ \E items \in {
            MapSeq(LAMBDA c : [key |-> c.mod,
                               value |-> EnumType(
                                   MappedQualifiedId(NamespaceGet(c.mod), c.name),
                                   EnumValues(c))],
                   SelectSeq(ref_sorted,
                             LAMBDA c : /\ opts.enum_mode = "TYPE"
                                        /\ is_type_enum(Cls(c))
                                        /\ ~(Len(EnumValues(c)) < 2))) } :
          IF IsErr(ItemsErr(items))
          THEN Fail(ItemsErr(items)) /\ UNCHANGED enums
          ELSE /\ enums' = DictAppendAll(<<>>, items)
               /\ pc' = "structs"
               /\ UNCHANGED error
    /\ UNCHANGED <<opts, namespaces, probe, entity_types, run, previous, calls, ref_sorted, table_types,
                   structs, tables, catalog>>

\* "collect all struct types in alphabetical order"
CollectStructs ==
    /\ pc = "structs"
    /\ \E items \in {
            MapSeq(LAMBDA c : [key |-> c.mod, value |-> dataclass_to_struct(c)],
                   IF opts.struct_mode = "TYPE"
                   THEN _topological_sort(
                            SelectSeq(ref_sorted, LAMBDA c : is_struct_type(Cls(c))))
                   ELSE <<>>) } :
          IF IsErr(ItemsErr(items))
          THEN Fail(ItemsErr(items)) /\ UNCHANGED structs
          ELSE /\ structs' = DictAppendAll(<<>>, items)
               /\ pc' = "tables"
               /\ UNCHANGED error
    /\ UNCHANGED <<opts, namespaces, probe, entity_types, run, previous, calls, ref_sorted, table_types,
                   enums, tables, catalog>>

\* "create tables"
CreateTables ==
    /\ pc = "tables"
    /\ \E types \in {SelectSeq(ref_sorted, LAMBDA c : is_entity_type(Cls(c)))} :
       \E items \in {MapSeq(LAMBDA c : [key |-> c.mod, value |-> dataclass_to_table(c)],
                            types)} :
          /\ table_types' = types
          /\ IF IsErr(ItemsErr(items))
             THEN Fail(ItemsErr(items)) /\ UNCHANGED tables
             ELSE /\ tables' = DictAppendAll(<<>>, items)
                  /\ pc' = "regular_enums"
                  /\ UNCHANGED error
    /\ UNCHANGED <<opts, namespaces, probe, entity_types, run, previous, calls, ref_sorted, enums, structs,
                   catalog>>

\* The lookup tables of a set of enumeration types, in the order of their
\* names, appended to tables.
AppendEnumTables(S, next_pc) ==
    \E items \in {MapSeq(LAMBDA e : [key |-> e.mod, value |-> _enum_table(e)],
                         NameOrderedClasses(S))} :
        IF IsErr(ItemsErr(items))
        THEN Fail(ItemsErr(items)) /\ UNCHANGED tables
        ELSE /\ tables' = DictAppendAll(tables, items)
             /\ pc' = next_pc
             /\ UNCHANGED error

\* The enumeration types of the fields a function of the entity yields.
EnumTypesOf(fields) ==
    {unwrap_annotated_type(fields[i].type).c :
        i \in {j \in 1..Len(fields) : ~IsErr(fields[j])}}

\* The enumeration types of the plain enum fields of the entities.
regular_enum_types ==
    IF opts.enum_mode = "RELATION"
    THEN UNION {EnumTypesOf(dataclass_enum_fields(c)) : c \in SeqToSet(table_types)}
    ELSE {}

\* "discover regular enumerations"
RegularEnums ==
    /\ pc = "regular_enums"
    /\ AppendEnumTables(regular_enum_types, "extensible_enums")
    /\ UNCHANGED <<opts, namespaces, probe, entity_types, run, previous, calls, ref_sorted, table_types,
                   enums, structs, catalog>>

\* The enumeration types of the extensible enum fields of the entities.
extensible_enum_types ==
    UNION {EnumTypesOf(dataclass_extensible_enum_fields(c)) : c \in SeqToSet(table_types)}

\* "discover extensible enumerations"
ExtensibleEnums ==
    /\ pc = "extensible_enums"
    /\ AppendEnumTables(extensible_enum_types, "joins")
    /\ UNCHANGED <<opts, namespaces, probe, entity_types, run, previous, calls, ref_sorted, table_types,
                   enums, structs, catalog>>

\* A join table that lacks the foreign key to the related item.
JoinTableWithoutItemKey(entity, item, join_left_name, join_right_name, primary_right_name, primary_right_type) ==
    Table(create_qualified_id(entity.mod, join_left_name \o "_" \o item.name),
          << Column("uuid", member_to_sql_data_type(Prim("UUID"), Cls(entity)),
                    FALSE, None, FALSE),
             Column(join_left_name,
                    member_to_sql_data_type(dataclass_primary_key_type(entity),
                                            Cls(entity)),
                    FALSE, None, FALSE),
             Column(join_right_name, primary_right_type, FALSE, None, FALSE) >>,
          <<"uuid">>,
          << ForeignConstraint("jk_" \o join_left_name, <<join_left_name>>,
                 ConstraintReference(create_qualified_id(entity.mod, entity.name),
                                     <<dataclass_primary_key_name(entity)>>)) >>)

\* The join table, given the names of its two key columns.
JoinTableNamed(entity, item, join_left_name, join_right_name, primary_right_name, primary_right_type) ==
    Table(create_qualified_id(entity.mod, join_left_name \o "_" \o item.name),
          << Column("uuid", member_to_sql_data_type(Prim("UUID"), Cls(entity)),
                    FALSE, None, FALSE),
             Column(join_left_name,
                    member_to_sql_data_type(dataclass_primary_key_type(entity),
                                            Cls(entity)),
                    FALSE, None, FALSE),
             Column(join_right_name, primary_right_type, FALSE, None, FALSE) >>,
          <<"uuid">>,
          << ForeignConstraint("jk_" \o join_left_name, <<join_left_name>>,
                 ConstraintReference(create_qualified_id(entity.mod, entity.name),
                                     <<dataclass_primary_key_name(entity)>>)),
             ForeignConstraint("jk_" \o join_right_name, <<join_right_name>>,
                 ConstraintReference(create_qualified_id(item.mod, item.name),
                                     <<primary_right_name>>)) >>)

\* The join table, given the key of the related item and the two prefixes.
JoinTableKeyed(entity, field, item, primary_right_name, primary_right_type, join_left_id, join_right_id) ==
    IF IsErr(primary_right_type) THEN primary_right_type
    ELSE IF IsErr(join_left_id) THEN join_left_id
    ELSE IF IsErr(join_right_id) THEN join_right_id
    ELSE JoinTableNamed(entity, item, join_left_id.s \o "_" \o field.name,
                        join_right_id.s \o "_" \o primary_right_name,
                        primary_right_name, primary_right_type)

\* The join table of a relationship field whose item type is item_type.
JoinTableOfItem(entity, field, item_type) ==
    IF is_entity_type(item_type)
    THEN JoinTableKeyed(entity, field, unwrap_annotated_type(item_type).c,
             dataclass_primary_key_name(unwrap_annotated_type(item_type).c),
             member_to_sql_data_type(
                 dataclass_primary_key_type(unwrap_annotated_type(item_type).c),
                 item_type),
             create_qualified_prefix(entity),
             create_qualified_prefix(unwrap_annotated_type(item_type).c))
    ELSE IF is_type_enum(item_type)
    THEN JoinTableKeyed(entity, field, unwrap_annotated_type(item_type).c,
             "id", _enumeration_key_type,
             create_qualified_prefix(entity),
             create_qualified_prefix(unwrap_annotated_type(item_type).c))
    ELSE Err("TypeError", "unrecognized join relation type")

\* The join table of one relationship field, or the error raised for it.
JoinTable(entity, field) == JoinTableOfItem(entity, field, unwrap_generic_list(field.type))

\* The join tables of the relationship fields of an entity, as dict items.
JoinTablesOf(entity) ==
    MapSeq(LAMBDA f : [key |-> entity.mod, value |-> JoinTable(entity, f)],
           SelectSeq(dataclass_fields(entity), LAMBDA f : _is_relationship(f.type)))

\* "create join tables for one-to-many relationships"
JoinTables ==
    /\ pc = "joins"
    /\ \E items \in {Flatten(MapSeq(LAMBDA c : JoinTablesOf(c), table_types))} :
          IF IsErr(ItemsErr(items))
          THEN Fail(ItemsErr(items)) /\ UNCHANGED tables
          ELSE /\ tables' = DictAppendAll(tables, items)
               /\ pc' = "namespaces"
               /\ UNCHANGED error
    /\ UNCHANGED <<opts, namespaces, probe, entity_types, run, previous, calls, ref_sorted, table_types,
                   enums, structs, catalog>>

Namespace(name, enum_defs, struct_defs, table_defs) ==
    IF IsErr(name) THEN name
    ELSE [t |-> "namespace", name |-> IF name.ns = None THEN "" ELSE name.ns,
          enums |-> enum_defs, structs |-> struct_defs, tables |-> table_defs]

\* The namespaces of the catalog: one per module that has tables with
\* qualified names, a single unnamed one otherwise.
BuildNamespaces ==
    /\ pc = "namespaces"
    /\ \E result \in {
            IF opts.qualified_names
            THEN MapSeq(LAMBDA e : Namespace(NamespaceGet(e.key), DictGet(enums, e.key),
                                             DictGet(structs, e.key), e.defs),
                        tables)
            ELSE << Namespace([t |-> "ns", ns |-> None],
                        Flatten(MapSeq(LAMBDA e : e.defs, enums)),
                        Flatten(MapSeq(LAMBDA e : e.defs, structs)),
                        Flatten(MapSeq(LAMBDA e : e.defs, tables))) >> } :
          IF IsErr(FirstErr(result))
          THEN Fail(FirstErr(result)) /\ UNCHANGED catalog
          ELSE /\ catalog' = result
               /\ pc' = "done"
               /\ UNCHANGED error
    /\ UNCHANGED <<opts, namespaces, probe, entity_types, run, previous, calls, ref_sorted, table_types,
                   enums, structs, tables>>

(***************************************************************************)
(* The specification: a converter is constructed with some options, and    *)
(* dataclasses_to_catalog is called on a list of entity types.             *)
(***************************************************************************)
EnumModes == {"TYPE", "INLINE", "RELATION", "CHECK"}
StructModes == {"TYPE", "JSON"}
ArrayModes == {"ARRAY", "JSON"}

\* The dictionary the tests construct NamespaceMapping from maps tables to
\* None; the other modules get a namespace each.
NamespaceMappings ==
    { [m \in Modules |-> CASE m = "tables" -> None
                           [] m = "extra" -> "extra"
                           [] m = "shared" -> "shared"] }

ConverterOptions ==
    [ enum_mode : EnumModes, struct_mode : StructModes, array_mode : ArrayModes,
      extra_numeric_types : {FALSE}, qualified_names : BOOLEAN,
      foreign_constraints : BOOLEAN, substitutions : {<<>>},
      skip_annotations : {{}} ]

\* The number of calls of dataclasses_to_catalog made on one input.
MaxRuns == 2

\* A second call of dataclasses_to_catalog on the same converter and the same
\* entity types, after the first has returned its catalog.
CallAgain ==
    /\ pc = "done"
    /\ run < MaxRuns
    /\ run' = run + 1
    /\ previous' = catalog
    /\ pc' = "start"
    /\ ref_sorted' = <<>>
    /\ table_types' = <<>>
    /\ enums' = <<>>
    /\ structs' = <<>>
    /\ tables' = <<>>
    /\ catalog' = <<>>
    /\ UNCHANGED <<opts, namespaces, probe, entity_types, error, calls>>

\* No call of dataclasses_to_catalog has begun.
NotStarted ==
    /\ run = 1
    /\ previous = <<>>
    /\ ref_sorted = <<>>
    /\ table_types = <<>>
    /\ enums = <<>>
    /\ structs = <<>>
    /\ tables = <<>>
    /\ catalog = <<>>
    /\ error = NoError

\* No call of a type-mapping function or of NamespaceMapping is in progress.
NoCalls ==
    /\ call_type = None
    /\ call_result = None
    /\ dictionary = None
    /\ mapping = None
    /\ dialect = None
    /\ target = None
    /\ output = None

Init ==
    /\ opts \in ConverterOptions
    /\ namespaces \in NamespaceMappings
    /\ probe \in ProbeDecls
    /\ entity_types \in {{Probe} \cup S : S \in {X \in SUBSET OtherEntities :
                                                    Cardinality(X) <= MaxOthers}}
    /\ pc = "start"
    /\ NotStarted
    /\ NoCalls

Next ==
    \/ CollectReferenced
    \/ CollectEnums
    \/ CollectStructs
    \/ CreateTables
    \/ RegularEnums
    \/ ExtensibleEnums
    \/ JoinTables
    \/ BuildNamespaces

Spec == Init /\ [][Next]_vars

\* Two calls on the same input.
NextRepeated == Next \/ CallAgain

SpecRepeated == Init /\ [][NextRepeated]_vars

(***************************************************************************)
(* dataclasses_to_catalog on a list of entity types of the three modules,  *)
(* with the namespace mapping of the tests or the default one.             *)
(***************************************************************************)
\* How many entity types the input list holds.
MaxListed == 3

\* NamespaceMapping(): without a dictionary, self.dictionary = {}.
DefaultNamespaceMapping == <<>>

\* DataclassConverterOptions(): every field at its default.
DefaultOptions ==
    [ enum_mode |-> "TYPE", struct_mode |-> "TYPE", array_mode |-> "ARRAY",
      extra_numeric_types |-> FALSE, qualified_names |-> TRUE,
      foreign_constraints |-> TRUE, substitutions |-> <<>>, skip_annotations |-> {} ]

\* The declarations of Probe's field f here: Probe references Person, which
\* references Address.
ListedProbeDecls == {Prim("str"), Cls(Person)}

InitListed ==
    /\ opts \in ConverterOptions
    /\ namespaces \in NamespaceMappings \cup {DefaultNamespaceMapping}
    /\ probe \in ListedProbeDecls
    /\ entity_types \in {X \in SUBSET (OtherEntities \cup {Probe}) :
                            X # {} /\ Cardinality(X) <= MaxListed}
    /\ pc = "start"
    /\ NotStarted
    /\ NoCalls

SpecListed == InitListed /\ [][Next]_vars

(***************************************************************************)
(* The type-mapping functions called on their own: one call of             *)
(* member_to_sql_data_type or of simple_type_to_sql_data_type on a         *)
(* converter whose options Init draws.                                     *)
(***************************************************************************)
\* Substitution tables: none (the default), and tables keyed by classes as
\* the dialects pass them (bool, str, float, JsonType), and by an
\* enumeration, a struct and an entity class.
MySQLSubstitutions ==
    Prim("bool") :> SqlIntegerType(1) @@ Prim("str") :> SqlVariableCharacterType(16777215)

DeltaSubstitutions ==
    Prim("float") :> SqlDoubleType @@ Prim("float32") :> SqlRealType
        @@ Prim("str") :> SqlVariableCharacterType(0)
        @@ Prim("JsonType") :> SqlVariableCharacterType(0)

SubstitutionTables ==
    { <<>>, MySQLSubstitutions, DeltaSubstitutions,
      Cls(WorkflowState) :> SqlVariableCharacterType(0) @@ Cls(Coordinates) :> SqlJsonType
          @@ Cls(Address) :> SqlUuidType }

MapperOptions ==
    [ enum_mode : EnumModes, struct_mode : StructModes, array_mode : ArrayModes,
      extra_numeric_types : BOOLEAN, qualified_names : BOOLEAN,
      foreign_constraints : {TRUE}, substitutions : SubstitutionTables,
      skip_annotations : {{}} ]

IntegerTypes ==
    { Prim(n) : n \in {"int", "int8", "int16", "int32", "int64",
                       "uint8", "uint16", "uint32", "uint64"} }

\* The types the functions are called on.
MapperTypes ==
    ProbeDecls \cup IntegerTypes
        \cup { Prim("bool"), Prim("float"), Prim("float32"), Prim("JsonType"),
               Cls(Person), Cls(Location), ListOf(Cls(Person)), ListOf(Cls(Location)),
               UnionOf(<<Cls(Address2), Cls(Person)>>),
               UnionOf(<<Cls(Person), Cls(Location), Cls(Address)>>),
               UnionOf(<<Cls(Person), Cls(Address2), Cls(Address)>>) }

InitMapper ==
    /\ opts \in MapperOptions
    /\ namespaces \in NamespaceMappings
    /\ probe = Prim("str")
    /\ entity_types = {}
    /\ pc = "call"
    /\ NotStarted
    /\ call_type \in MapperTypes
    /\ call_result = None
    /\ dictionary = None
    /\ mapping = None
    /\ dialect = None
    /\ target = None
    /\ output = None

\* converter.member_to_sql_data_type(typ, cls)
MapMember ==
    /\ pc = "call"
    /\ call_result' = member_to_sql_data_type(call_type, Probe)
    /\ pc' = "member"
    /\ UNCHANGED <<opts, namespaces, probe, entity_types, run, previous, ref_sorted,
                   table_types, enums, structs, tables, catalog, error, call_type,
                   dictionary, mapping, renders>>

\* converter.simple_type_to_sql_data_type(typ)
MapSimple ==
    /\ pc = "call"
    /\ call_result' = simple_type_to_sql_data_type(call_type)
    /\ pc' = "simple"
    /\ UNCHANGED <<opts, namespaces, probe, entity_types, run, previous, ref_sorted,
                   table_types, enums, structs, tables, catalog, error, call_type,
                   dictionary, mapping, renders>>

NextMapper == MapMember \/ MapSimple

SpecMapper == InitMapper /\ [][NextMapper]_vars

(***************************************************************************)
(* NamespaceMapping constructed on its own, and asked for the namespace of *)
(* a module.                                                               *)
(***************************************************************************)
\* The targets of a dictionary: the default namespace (None) or a name.
NamespaceTargets == {None, "extra", "shared"}

\* The argument of NamespaceMapping: no dictionary (Python's None), or a
\* dictionary from some of the modules to targets.
NoDictionary == [given |-> FALSE]
Dictionary(items) == [given |-> TRUE, items |-> items]

NamespaceDictionaries ==
    {NoDictionary}
        \cup UNION {{Dictionary(items) : items \in [S -> NamespaceTargets]} :
                       S \in SUBSET Modules}

\* NamespaceMapping.__init__ without the test of the targets.
NamespaceMappingUnchecked(d) ==
    IF d.given THEN [dictionary |-> d.items] ELSE [dictionary |-> <<>>]

\* NamespaceMapping.__init__: the object, or the ValueError it raises.
NamespaceMapping(d) ==
    IF d.given
    THEN IF Cardinality({d.items[m] : m \in DOMAIN d.items}) # Cardinality(DOMAIN d.items)
         THEN Err("ValueError",
                  "expected: a one-to-one mapping between Python modules and database schema names")
         ELSE [dictionary |-> d.items]
    ELSE [dictionary |-> <<>>]

InitNamespace ==
    /\ opts = DefaultOptions
    /\ namespaces = DefaultNamespaceMapping
    /\ probe = Prim("str")
    /\ entity_types = {}
    /\ pc = "construct"
    /\ NotStarted
    /\ call_type = None
    /\ call_result = None
    /\ dictionary \in NamespaceDictionaries
    /\ mapping = None
    /\ dialect = None
    /\ target = None
    /\ output = None

\* mapping = NamespaceMapping(dictionary); the object becomes the mapping of
\* the options.
Construct ==
    /\ pc = "construct"
    /\ mapping' = NamespaceMapping(dictionary)
    /\ IF IsErr(NamespaceMapping(dictionary))
       THEN pc' = "refused" /\ UNCHANGED namespaces
       ELSE pc' = "constructed" /\ namespaces' = NamespaceMapping(dictionary).dictionary
    /\ UNCHANGED <<opts, probe, entity_types, run, previous, ref_sorted, table_types,
                   enums, structs, tables, catalog, error, call_type, call_result,
                   dictionary, renders>>

\* mapping.get(name)
Get ==
    /\ pc = "constructed"
    /\ \E name \in Modules :
            /\ call_type' = name
            /\ call_result' = NamespaceGet(name)
    /\ pc' = "got"
    /\ UNCHANGED <<opts, namespaces, probe, entity_types, run, previous, ref_sorted,
                   table_types, enums, structs, tables, catalog, error, dictionary,
                   mapping, renders>>

NextNamespace == Construct \/ Get

SpecNamespace == InitNamespace /\ [][NextNamespace]_vars

(***************************************************************************)
(* The generators of the dialects MySQL and Delta: their construction from *)
(* GeneratorOptions.                                                       *)
(***************************************************************************)
\* GeneratorOptions: each mode is one of its values or is left unset (None).
GeneratorOptions ==
    [ enum_mode : EnumModes \cup {None}, struct_mode : StructModes \cup {None},
      array_mode : ArrayModes \cup {None}, foreign_constraints : BOOLEAN,
      namespaces : {NoDictionary,
                    Dictionary([m \in Modules |-> CASE m = "tables" -> None
                                                    [] m = "extra" -> "extra"
                                                    [] m = "shared" -> "shared"])},
      skip_annotations : {{}} ]

\* "requested or default" on a mode: enumeration members are true values.
OrDefault(requested, default) == IF requested # None THEN requested ELSE default

FormationError(msg) == Err("FormationError", msg)

\* A generator that holds a converter of the given options and namespace
\* mapping; an exception raised while they are built takes its place.
Generator(options, namespace_mapping) ==
    IF IsErr(options) THEN options
    ELSE IF IsErr(namespace_mapping) THEN namespace_mapping
    ELSE [t |-> "generator", options |-> options,
          namespaces |-> namespace_mapping.dictionary]

\* MySQLGenerator.__init__
MySQLGeneratorInit(options) ==
    IF options.enum_mode = "TYPE"
    THEN FormationError("unsupported enum conversion mode")
    ELSE IF options.struct_mode = "TYPE"
    THEN FormationError("unsupported struct conversion mode")
    ELSE IF options.array_mode = "ARRAY"
    THEN FormationError("unsupported array conversion mode")
    ELSE Generator(
             [ enum_mode |-> OrDefault(options.enum_mode, "INLINE"),
               struct_mode |-> OrDefault(options.struct_mode, "JSON"),
               array_mode |-> OrDefault(options.array_mode, "JSON"),
               extra_numeric_types |-> FALSE, qualified_names |-> FALSE,
               foreign_constraints |-> options.foreign_constraints,
               substitutions |-> MySQLSubstitutions,
               skip_annotations |-> options.skip_annotations ],
             NamespaceMapping(options.namespaces))

\* The keyword arguments DeltaGenerator.__init__ passes to
\* DataclassConverterOptions, evaluated in order: StructMode has no member
\* INLINE, so the default of struct_mode raises AttributeError when it is
\* evaluated; DataclassConverterOptions has no field check_constraints or
\* initialize_tables, so the call itself raises TypeError.
DeltaConverterOptions(options) ==
    IF options.struct_mode = None
    THEN Err("AttributeError", "INLINE")
    ELSE IF IsErr(NamespaceMapping(options.namespaces))
    THEN NamespaceMapping(options.namespaces)
    ELSE Err("TypeError", "__init__() got an unexpected keyword argument 'check_constraints'")

\* DeltaGenerator.__init__
DeltaGeneratorInit(options) ==
    IF options.enum_mode \in {"INLINE", "RELATION", "TYPE"}
    THEN FormationError("unsupported enum conversion mode")
    ELSE IF options.struct_mode = "TYPE"
    THEN FormationError("unsupported struct conversion mode")
    ELSE Generator(DeltaConverterOptions(options), NamespaceMapping(options.namespaces))

InitGenerator ==
    /\ opts = DefaultOptions
    /\ namespaces = DefaultNamespaceMapping
    /\ probe = Prim("str")
    /\ entity_types = {}
    /\ pc = "new"
    /\ NotStarted
    /\ call_type = None
    /\ call_result = None
    /\ dictionary = None
    /\ mapping = None
    /\ dialect \in {"mysql", "delta"}
    /\ target \in GeneratorOptions
    /\ output = None

\* output = generator_class(target): the converter of the generator becomes
\* the converter in use.
NewGenerator(init) ==
    /\ output' = init
    /\ IF IsErr(init)
       THEN pc' = "no_generator" /\ UNCHANGED <<opts, namespaces>>
       ELSE pc' = "generator" /\ opts' = init.options /\ namespaces' = init.namespaces
    /\ UNCHANGED <<probe, entity_types, run, previous, ref_sorted, table_types, enums,
                   structs, tables, catalog, error, call_type, call_result, dictionary,
                   mapping, dialect, target>>

NewMySQLGenerator ==
    /\ pc = "new"
    /\ dialect = "mysql"
    /\ NewGenerator(MySQLGeneratorInit(target))

NewDeltaGenerator ==
    /\ pc = "new"
    /\ dialect = "delta"
    /\ NewGenerator(DeltaGeneratorInit(target))

NextGenerator == NewMySQLGenerator \/ NewDeltaGenerator

SpecGenerator == InitGenerator /\ [][NextGenerator]_vars

(***************************************************************************)
(* The upsert statement of the MySQL generator for a table that its        *)
(* converter built.                                                        *)
(***************************************************************************)
\* str(LocalId): the quoted identifier.
LocalIdText(id) == "\"" \o id \o "\""

\* repr(LocalId), as a tuple shows its items.
LocalIdRepr(id) == "LocalId(id='" \o id \o "')"

\* str of a qualified or prefixed identifier.
QualifiedIdText(qid) ==
    IF qid.ns = None THEN LocalIdText(qid.id)
    ELSE IF qid.t = "QualifiedId" THEN LocalIdText(qid.ns) \o "." \o LocalIdText(qid.id)
    ELSE LocalIdText(qid.ns \o "__" \o qid.id)

\* sep.join(items)
RECURSIVE Join(_, _)
Join(sep, items) ==
    IF Len(items) = 0 THEN ""
    ELSE IF Len(items) = 1 THEN items[1]
    ELSE items[1] \o sep \o Join(sep, Tail(items))

\* str of a tuple of LocalId, which is how a table holds its primary key.
TupleText(ids) ==
    IF Len(ids) = 1 THEN "(" \o LocalIdRepr(ids[1]) \o ",)"
    ELSE "(" \o Join(", ", MapSeq(LAMBDA id : LocalIdRepr(id), ids)) \o ")"

\* Table.get_value_columns: the columns that are not part of the primary key.
get_value_columns(table) ==
    SelectSeq(table.columns, LAMBDA column : column.name \notin SeqToSet(table.primary_key))

\* _field_list on the text of the field identifiers (the branch in use).
_field_list(field_ids) ==
    "(" \o Join(", ", field_ids) \o ") VALUES ("
        \o Join(", ", MapSeq(LAMBDA f : "%s", field_ids)) \o ")"

\* _field_update on the text of a field identifier (the branch in use).
_field_update(field_id) == field_id \o " = VALUES(" \o field_id \o ")"

\* MySQLGenerator.get_table_upsert_stmt
get_table_upsert_stmt(table) ==
    Join("\n",
         << "INSERT INTO " \o QualifiedIdText(table.name),
            _field_list(MapSeq(LAMBDA column : LocalIdText(column.name),
                               SelectSeq(table.columns, LAMBDA column : ~column.identity))),
            "ON DUPLICATE KEY UPDATE",
            IF Len(get_value_columns(table)) > 0
            THEN Join(",\n", MapSeq(LAMBDA column : _field_update(LocalIdText(column.name)),
                                    get_value_columns(table)))
            ELSE _field_update(TupleText(table.primary_key)),
            ";" >>)

\* The converters MySQLGenerator makes.
MySQLConverters ==
    {g \in {MySQLGeneratorInit(options) : options \in GeneratorOptions} :
        ~IsErr(g) /\ g.namespaces # DefaultNamespaceMapping}

\* The tables a converter builds for the entities and the enumerations.
ConvertedTables ==
    {table \in {dataclass_to_table(c) : c \in OtherEntities \cup {Probe}}
                  \cup {_enum_table(e) : e \in EnumClasses} : ~IsErr(table)}

InitUpsert ==
    /\ dialect = "mysql"
    /\ \E g \in MySQLConverters : opts = g.options /\ namespaces = g.namespaces
    /\ probe \in ProbeDecls
    /\ entity_types = {}
    /\ pc = "table"
    /\ NotStarted
    /\ call_type = None
    /\ call_result = None
    /\ dictionary = None
    /\ mapping = None
    /\ target \in ConvertedTables
    /\ output = None

\* output = generator.get_table_upsert_stmt(target)
Upsert ==
    /\ pc = "table"
    /\ output' = get_table_upsert_stmt(target)
    /\ pc' = "upsert"
    /\ UNCHANGED <<opts, namespaces, probe, entity_types, run, previous, ref_sorted,
                   table_types, enums, structs, tables, catalog, error, call_type,
                   call_result, dictionary, mapping, dialect, target>>

SpecUpsert == InitUpsert /\ [][Upsert]_vars

(***************************************************************************)
(* One field of an entity made a column, and the column rendered by the    *)
(* Delta and the Snowflake column classes.                                 *)
(***************************************************************************)
Identity(T) == Annot(T, <<IdentityTag>>)

\* The declared types and defaults of the field.
ColumnFieldTypes ==
    { Prim("str"), Optional(Prim("str")), Annot(Prim("str"), <<MaxLength(8)>>),
      Prim("int"), Optional(Prim("int")), PrimaryKey(Prim("int")),
      Identity(Prim("int")), Annot(Prim("int"), <<PrimaryKeyTag, IdentityTag>>),
      Optional(Identity(Prim("int"))), Unique(Prim("str")), Cls(WorkflowState),
      Prim("datetime"), Cls(Address) }
FieldDefaults == {MISSING, None, "x", "0"}
ColumnFields ==
    { [name |-> "f", type |-> T, default |-> d] : T \in ColumnFieldTypes, d \in FieldDefaults }

ColumnOptions ==
    [ enum_mode : EnumModes, struct_mode : {"JSON"}, array_mode : {"JSON"},
      extra_numeric_types : {FALSE}, qualified_names : {FALSE},
      foreign_constraints : {FALSE}, substitutions : {<<>>},
      skip_annotations : {{}} ]

\* DeltaColumn.data_spec: the parts of the text, in order (a column of the
\* model has no description).
DeltaDataSpec(column) ==
    [ data_type |-> column.data_type,
      nullable |-> IF ~column.nullable /\ ~column.identity THEN " NOT NULL" ELSE "",
      identity |-> IF column.identity THEN " GENERATED BY DEFAULT AS IDENTITY" ELSE "",
      description |-> "" ]

\* The module of the Snowflake column class: the body of default_expr stands
\* at the indentation of its def line, so the module does not compile.
SnowflakeObjectTypes ==
    Err("IndentationError", "expected an indented block after function definition")

\* SnowflakeColumn.default_expr, as its statements read.
SnowflakeDefaultExpr(column) ==
    IF column.identity THEN ""
    ELSE IF column.default = None
    THEN IF column.data_type.t = "integer" THEN " DEFAULT 0" ELSE ""
    ELSE IF column.data_type.t = "timestamp" THEN " DEFAULT TIMESTAMP " \o column.default
    ELSE " DEFAULT " \o column.default

\* SnowflakeColumn.data_spec: the parts of the text, in order.
SnowflakeDataSpec(column) ==
    IF IsErr(SnowflakeObjectTypes) THEN SnowflakeObjectTypes
    ELSE [ data_type |-> column.data_type,
           nullable |-> IF ~column.nullable /\ ~column.identity THEN " NOT NULL" ELSE "",
           default |-> SnowflakeDefaultExpr(column),
           identity |-> IF column.identity THEN " IDENTITY" ELSE "",
           description |-> "" ]

InitColumn ==
    /\ opts \in ColumnOptions
    /\ namespaces \in NamespaceMappings
    /\ probe = Prim("str")
    /\ entity_types = {}
    /\ pc = "field"
    /\ NotStarted
    /\ call_type \in ColumnFields
    /\ call_result = None
    /\ dictionary = None
    /\ mapping = None
    /\ dialect \in {"delta", "snowflake"}
    /\ target = None
    /\ output = None

\* column = converter.member_to_column(field, cls, doc)
MemberToColumn ==
    /\ pc = "field"
    /\ call_result' = member_to_column(call_type, Probe)
    /\ pc' = IF IsErr(member_to_column(call_type, Probe)) THEN "no_column" ELSE "column"
    /\ UNCHANGED <<opts, namespaces, probe, entity_types, run, previous, ref_sorted,
                   table_types, enums, structs, tables, catalog, error, call_type,
                   dictionary, mapping, renders>>

\* output = column.data_spec
DataSpec ==
    /\ pc = "column"
    /\ output' = IF dialect = "delta" THEN DeltaDataSpec(call_result)
                 ELSE SnowflakeDataSpec(call_result)
    /\ pc' = "rendered"
    /\ UNCHANGED <<opts, namespaces, probe, entity_types, run, previous, ref_sorted,
                   table_types, enums, structs, tables, catalog, error, call_type,
                   call_result, dictionary, mapping, dialect, target>>

NextColumn == MemberToColumn \/ DataSpec

SpecColumn == InitColumn /\ [][NextColumn]_vars

(***************************************************************************)
(* simple_type_to_sql_data_type on annotated types, with a skip set.       *)
(***************************************************************************)
\* An annotation item of a class the type mapper knows nothing about.
Alias == [tag |-> "Alias"]

AnnotationItems == {MaxLength(8), MaxLength(4), Alias}
Metadata ==
    {<<a>> : a \in AnnotationItems} \cup {<<a, b>> : a, b \in AnnotationItems}
AnnotatedBases ==
    {Prim("str"), Prim("float"), Prim("int"), Prim("bool"), Cls(WorkflowState),
     Cls(Address)}
AnnotatedTypes == {Annot(b, meta) : b \in AnnotatedBases, meta \in Metadata}

AnnotatedOptions ==
    [ enum_mode : EnumModes, struct_mode : {"JSON"}, array_mode : {"JSON"},
      extra_numeric_types : {FALSE}, qualified_names : {FALSE},
      foreign_constraints : {FALSE}, substitutions : {<<>>, MySQLSubstitutions},
      skip_annotations : {{}, {"Alias"}, {"MaxLength"}, {"MaxLength", "Alias"}} ]

InitAnnotated ==
    /\ opts \in AnnotatedOptions
    /\ namespaces \in NamespaceMappings
    /\ probe = Prim("str")
    /\ entity_types = {}
    /\ pc = "call"
    /\ NotStarted
    /\ call_type \in AnnotatedTypes
    /\ call_result = None
    /\ dictionary = None
    /\ mapping = None
    /\ dialect = None
    /\ target = None
    /\ output = None

SpecAnnotated == InitAnnotated /\ [][MapSimple]_vars

(***************************************************************************)
(* Several calls of the type-mapping functions on one converter, and what  *)
(* they do to its substitution table.  A descriptor is an object:          *)
(* parse_meta changes the object it is called on.                          *)
(***************************************************************************)
\* The number of calls made on one converter.
MaxCalls == 2

\* The descriptor object that the table holds for a key.
Entry(table, key) == [ref |-> "entry", value |-> table[key]]

\* The object is used as it is.
NotCopied(obj) == obj

\* copy.copy(obj): another object of the same value.
copy_copy(obj) == [obj EXCEPT !.ref = "copy"]

\* The value of a descriptor object after the loop "for meta in metadata" has
\* run on it (to its end, or to the item that raises).
RECURSIVE InPlace(_, _, _)
InPlace(sql_type, metadata, i) ==
    IF i > Len(metadata) THEN sql_type
    ELSE IF metadata[i].tag \in opts.skip_annotations
    THEN InPlace(sql_type, metadata, i + 1)
    ELSE IF IsErr(parse_meta(sql_type, metadata[i])) THEN sql_type
    ELSE InPlace(parse_meta(sql_type, metadata[i]), metadata, i + 1)

\* The substitution table after simple_type_to_sql_data_type has taken the
\* annotated type typ through "if metadata:".
SubstitutionsRefined(table, typ) ==
    IF typ.b \in DOMAIN table /\ copy_copy(Entry(table, typ.b)).ref = "entry"
    THEN [table EXCEPT ![typ.b] = InPlace(table[typ.b], typ.meta, 1)]
    ELSE table

\* The annotated types that a call of simple_type_to_sql_data_type(typ) takes
\* through "if metadata:", in order: typ itself if it is annotated and no
\* earlier rule returns, and the value type of an enumeration under CHECK.
RECURSIVE AnnotatedPassed(_)
AnnotatedPassed(typ) ==
    IF typ \in DOMAIN opts.substitutions THEN <<>>
    ELSE IF typ.k = "prim" /\ BuiltinRule(typ.n) # NoRule THEN <<>>
    ELSE (IF typ.k = "annot" THEN <<typ>> ELSE <<>>)
         \o (IF /\ typ.k = "annot" => ApplyMetadata(ProvisionalType(typ.b), typ.meta, 1) = NoRule
                /\ is_type_enum(unwrap_annotated_type(typ))
                /\ opts.enum_mode = "CHECK"
                /\ ~IsErr(enum_value_type(unwrap_annotated_type(typ).c))
             THEN AnnotatedPassed(enum_value_type(unwrap_annotated_type(typ).c))
             ELSE <<>>)

RECURSIVE SubstitutionsAfter(_, _)
SubstitutionsAfter(table, passed) ==
    IF Len(passed) = 0 THEN table
    ELSE SubstitutionsAfter(SubstitutionsRefined(table, Head(passed)), Tail(passed))

\* The simple type that member_to_sql_data_type(typ, cls) hands to
\* simple_type_to_sql_data_type: typ itself, or the item type of a list under
\* array mode ARRAY.
SimpleTypeOfMember(typ) ==
    IF typ \in DOMAIN opts.substitutions THEN <<>>
    ELSE IF is_simple_type(typ) THEN <<typ>>
    ELSE IF /\ typ.k = "list"
            /\ is_simple_type(typ.e)
            /\ opts.array_mode = "ARRAY"
            /\ ~(opts.enum_mode = "RELATION" /\ is_type_enum(typ.e))
    THEN <<typ.e>>
    ELSE <<>>

\* The types of the calls: simple types and lists of simple types.
FrameTypes ==
    { Prim("str"), Prim("bool"), Prim("int"),
      Annot(Prim("str"), <<MaxLength(8)>>), Annot(Prim("str"), <<MaxLength(4)>>),
      Annot(Prim("bool"), <<MaxLength(8)>>), Annot(Prim("float"), <<MaxLength(8)>>),
      Cls(WorkflowState), ListOf(Prim("str")),
      ListOf(Annot(Prim("str"), <<MaxLength(8)>>)) }

FrameOptions ==
    [ enum_mode : EnumModes, struct_mode : {"JSON"}, array_mode : ArrayModes,
      extra_numeric_types : {FALSE}, qualified_names : {FALSE},
      foreign_constraints : {FALSE},
      substitutions : {<<>>, MySQLSubstitutions, DeltaSubstitutions},
      skip_annotations : {{}} ]

InitFrame ==
    /\ opts \in FrameOptions
    /\ namespaces \in NamespaceMappings
    /\ probe = Prim("str")
    /\ entity_types = {}
    /\ pc = "call"
    /\ run = 0
    /\ previous = <<>>
    /\ ref_sorted = <<>>
    /\ table_types = <<>>
    /\ enums = <<>>
    /\ structs = <<>>
    /\ tables = <<>>
    /\ catalog = <<>>
    /\ error = NoError
    /\ call_type = None
    /\ call_result = None
    /\ dictionary = None
    /\ mapping = None
    /\ dialect = None
    /\ target = opts
    /\ output = None

\* One more call on the converter; previous keeps the calls made before.
Called(function, typ, result, passed) ==
    /\ run < MaxCalls
    /\ run' = run + 1
    /\ previous' = IF run = 0 THEN <<>>
                   ELSE Append(previous, [function |-> pc, type |-> call_type,
                                          result |-> call_result])
    /\ pc' = function
    /\ call_type' = typ
    /\ call_result' = result
    /\ opts' = [opts EXCEPT !.substitutions = SubstitutionsAfter(opts.substitutions, passed)]
    /\ UNCHANGED <<namespaces, probe, entity_types, ref_sorted, table_types, enums,
                   structs, tables, catalog, error, dictionary, mapping, renders>>

\* converter.simple_type_to_sql_data_type(typ)
CallSimple ==
    \E typ \in {T \in FrameTypes : is_simple_type(T)} :
        Called("simple", typ, simple_type_to_sql_data_type(typ), AnnotatedPassed(typ))

\* converter.member_to_sql_data_type(typ, cls)
CallMember ==
    \E typ \in FrameTypes :
        Called("member", typ, member_to_sql_data_type(typ, Probe),
               Flatten(MapSeq(LAMBDA T : AnnotatedPassed(T), SimpleTypeOfMember(typ))))

NextFrame == CallSimple \/ CallMember

SpecFrame == InitFrame /\ [][NextFrame]_vars

(***************************************************************************)
(* The catalog as the properties below read it.                            *)
(***************************************************************************)
Returned == pc = "done"

CatalogTables == Flatten(MapSeq(LAMBDA n : n.tables, catalog))
CatalogEnums == Flatten(MapSeq(LAMBDA n : n.enums, catalog))
CatalogStructs == Flatten(MapSeq(LAMBDA n : n.structs, catalog))

\* The tables of the catalog that bear a name.
TablesNamed(name) == {i \in 1..Len(CatalogTables) : CatalogTables[i].name = name}

ColumnNames(table) == {table.columns[i].name : i \in 1..Len(table.columns)}

KeyConstraints(table) ==
    SelectSeq(table.constraints, LAMBDA k : k.c \in {"foreign", "discriminated"})

\* A reference names a table of the catalog and columns of that table.
ReferenceResolves(ref) ==
    \E i \in TablesNamed(ref.table) :
        SeqToSet(ref.columns) \subseteq ColumnNames(CatalogTables[i])

TableReferences(table) == Flatten(MapSeq(LAMBDA k : k.refs, KeyConstraints(table)))
CatalogReferences == Flatten(MapSeq(LAMBDA t : TableReferences(t), CatalogTables))

\* C1: in every catalog dataclasses_to_catalog returns, every foreign-key
\* reference (of an entity table or of a join table) names a table of the same
\* catalog and columns of that table, in every enum mode, also when an
\* enumeration is only the element type of a list field under RELATION.
C1_ForeignKeysResolve ==
    Returned => \A i \in DOMAIN CatalogReferences : ReferenceResolves(CatalogReferences[i])

\* The plain enumeration fields of the entities of the call that are of type
\* e, as <<class, field name>>.
PlainEnumFields(e) ==
    UNION {{<<c, f.name>> :
              f \in SeqToSet(SelectSeq(dataclass_fields_as_required(c),
                        LAMBDA g : unwrap_annotated_type(g.type) = Cls(e)))} :
              c \in SeqToSet(table_types)}

\* Their extensible enumeration fields of the form e | str (Optional or not).
ExtensibleEnumFields(e) ==
    UNION {{<<c, f.name>> :
              f \in SeqToSet(SelectSeq(dataclass_fields_as_required(c),
                        LAMBDA g : /\ is_type_union(g.type)
                                   /\ SeqToSet(unwrap_union_types(g.type))
                                          = {Cls(e), Prim("str")}))} :
              c \in SeqToSet(table_types)}

EnumTableName(e) == create_qualified_id(e.mod, e.name)

\* The table of entity c has a foreign key on column f to the id of e's table.
HasEnumForeignKey(c, f, e) ==
    \E i \in TablesNamed(create_qualified_id(c.mod, c.name)) :
        \E k \in DOMAIN CatalogTables[i].constraints :
            /\ CatalogTables[i].constraints[k].c = "foreign"
            /\ CatalogTables[i].constraints[k].columns = <<f>>
            /\ CatalogTables[i].constraints[k].refs
                   = <<ConstraintReference(EnumTableName(e), <<"id">>)>>

\* C2: under enum mode RELATION, when two or more fields of the entities of the
\* call (of one entity or of several) reference the same enumeration type, the
\* catalog holds exactly one lookup table for that enumeration and each of those
\* fields has a foreign key to the id column of that table.
C2_SharedEnumOneLookupTable ==
    (Returned /\ opts.enum_mode = "RELATION") =>
        \A e \in EnumClasses :
            Cardinality(PlainEnumFields(e) \cup ExtensibleEnumFields(e)) >= 2 =>
                /\ Cardinality(TablesNamed(EnumTableName(e))) = 1
                /\ \A cf \in PlainEnumFields(e) \cup ExtensibleEnumFields(e) :
                        HasEnumForeignKey(cf[1], cf[2], e)

\* C3: when one enumeration type is the type of a plain enum field (enum mode
\* RELATION) and the enumeration of an extensible-enum field (E | str) of the
\* entities of the call, the catalog holds a single lookup table for it, never
\* two tables of that enumeration's qualified name.
C3_SingleMaterialization ==
    (Returned /\ opts.enum_mode = "RELATION") =>
        \A e \in EnumClasses :
            (PlainEnumFields(e) # {} /\ ExtensibleEnumFields(e) # {}) =>
                Cardinality(TablesNamed(EnumTableName(e))) = 1

\* The data types of the columns of the catalog's tables and of the members of
\* its struct types.
CatalogDataTypes ==
    UNION {{t.columns[i].data_type : i \in DOMAIN t.columns} :
              t \in SeqToSet(CatalogTables)}
    \cup UNION {{st.members[i].data_type : i \in DOMAIN st.members} :
                   st \in SeqToSet(CatalogStructs)}

\* The column f of the table of entity c has the given data type.
ColumnHasType(c, f, data_type) ==
    \E i \in TablesNamed(create_qualified_id(c.mod, c.name)) :
        \E k \in DOMAIN CatalogTables[i].columns :
            /\ CatalogTables[i].columns[k].name = f
            /\ CatalogTables[i].columns[k].data_type = data_type

\* The enumerations of fewer than two distinct values.
SmallEnums == {e \in EnumClasses : Cardinality(SeqToSet(EnumValues(e))) < 2}

\* C4: for an enumeration of fewer than two distinct values, under enum mode
\* TYPE or INLINE, no column has the user-defined type of the enumeration's
\* qualified name nor its inline enumeration type, the catalog holds no EnumType
\* for it, and each field of it is handled as an extensible enumeration: a
\* column of the enumeration key type with a foreign key to a lookup table that
\* is in the catalog.
C4_SmallEnumIsExtensible ==
    (Returned /\ opts.enum_mode \in {"TYPE", "INLINE"}) =>
        \A e \in SmallEnums :
            /\ SqlUserDefinedType(EnumTableName(e)) \notin CatalogDataTypes
            /\ SqlEnumType(EnumValues(e)) \notin CatalogDataTypes
            /\ \A i \in DOMAIN CatalogEnums : CatalogEnums[i].name.id # e.name
            /\ \A cf \in PlainEnumFields(e) :
                    /\ ColumnHasType(cf[1], cf[2], _enumeration_key_type)
                    /\ HasEnumForeignKey(cf[1], cf[2], e)
                    /\ TablesNamed(EnumTableName(e)) # {}

\* C5: for a fixed set of entity types and fixed options, a call of
\* dataclasses_to_catalog returns the catalog the call before it returned, with
\* the same order of namespaces, enums, structs and tables, whatever order the
\* set of referenced types is iterated in.
C5_RepeatedCallSameCatalog == (Returned /\ run > 1) => catalog = previous

\* The name of the catalog namespace of a module.
NamespaceName(module_name) ==
    IF namespaces[module_name] = None THEN "" ELSE namespaces[module_name]

\* Every definition of a dict of the assembly is in the namespace of its module
\* in the catalog, in the list the selector names.
AllInNamespace(dict, Defs(_)) ==
    \A i \in DOMAIN dict :
        \A d \in SeqToSet(dict[i].defs) :
            \E n \in DOMAIN catalog :
                /\ catalog[n].name = NamespaceName(dict[i].key)
                /\ d \in SeqToSet(Defs(catalog[n]))

NamespaceEnums(n) == n.enums
NamespaceStructs(n) == n.structs
NamespaceTables(n) == n.tables

\* C6: with qualified names, every Table, StructType and EnumType the assembly
\* produced is in the returned catalog, in the namespace of its defining module,
\* also when that module contributes no table.
C6_EveryObjectInItsNamespace ==
    (Returned /\ opts.qualified_names) =>
        /\ AllInNamespace(tables, NamespaceTables)
        /\ AllInNamespace(structs, NamespaceStructs)
        /\ AllInNamespace(enums, NamespaceEnums)

\* The prefix of the table of an entity in constraint names.
TablePrefix(c) == create_qualified_prefix(c).s

\* The fields of an entity that are flagged unique.
UniqueFields(c) ==
    {f \in SeqToSet(dataclass_fields(c)) : get_field_properties(f.type).is_unique}

\* C7: for every entity and every field flagged unique, the table of the entity
\* has a Unique constraint uq_<table>_<field> on that column, with foreign-key
\* generation enabled and with it disabled.
C7_UniqueConstraintAlways ==
    Returned =>
        \A c \in SeqToSet(table_types) :
            \A f \in UniqueFields(c) :
                \E i \in TablesNamed(create_qualified_id(c.mod, c.name)) :
                    UniqueConstraint("uq_" \o TablePrefix(c) \o "_" \o f.name, <<f.name>>)
                        \in SeqToSet(CatalogTables[i].constraints)

\* The foreign keys to lookup tables that part (a) names for entity c: one per
\* field of the form E | str, and under RELATION one per plain enum field.
MandatoryForeignKeys(c) ==
    {ForeignConstraint("fk_" \o TablePrefix(c) \o "_" \o cf[2], <<cf[2]>>,
                       ConstraintReference(EnumTableName(cf[3]), <<"id">>)) :
        cf \in {x \in {c} \X {f.name : f \in SeqToSet(dataclass_fields(c))} \X EnumClasses :
                   \/ <<x[1], x[2]>> \in ExtensibleEnumFields(x[3])
                   \/ /\ opts.enum_mode = "RELATION"
                      /\ <<x[1], x[2]>> \in PlainEnumFields(x[3])}}

\* The constraints that part (b) names for entity c.
OptionalForeignKeys(c) ==
    {ForeignConstraint("fk_" \o TablePrefix(c) \o "_" \o f.name, <<f.name>>,
         ConstraintReference(
             create_qualified_id(f.type.c.mod, f.type.c.name),
             <<dataclass_primary_key_name(f.type.c)>>)) :
        f \in {g \in SeqToSet(dataclass_fields_as_required(c)) : is_entity_type(g.type)}}
    \cup
    {DiscriminatedConstraint("dk_" \o TablePrefix(c) \o "_" \o f.name, <<f.name>>,
         [i \in DOMAIN f.type.m |->
             ConstraintReference(
                 create_qualified_id(f.type.m[i].c.mod, f.type.m[i].c.name),
                 <<dataclass_primary_key_name(f.type.m[i].c)>>)]) :
        f \in {g \in SeqToSet(dataclass_fields_as_required(c)) :
                  /\ is_type_union(g.type)
                  /\ \A m \in SeqToSet(unwrap_union_types(g.type)) : is_entity_type(m)}}

\* C8: the foreign-key constraints of the table of an entity are exactly (a) one
\* foreign key to the lookup table's id per extensible-enum field and, under
\* RELATION, per plain enum field, with foreign-key generation enabled or
\* disabled, and (b) only with foreign-key generation enabled, fk_<table>_<field>
\* per entity-typed field and dk_<table>_<field> per union-of-entities field.
C8_ForeignKeysExactly ==
    Returned =>
        \A c \in SeqToSet(table_types) :
            \E i \in TablesNamed(create_qualified_id(c.mod, c.name)) :
                /\ SeqToSet(KeyConstraints(CatalogTables[i]))
                       = MandatoryForeignKeys(c)
                         \cup (IF opts.foreign_constraints
                               THEN OptionalForeignKeys(c) ELSE {})
                /\ Len(KeyConstraints(CatalogTables[i]))
                       = Cardinality(SeqToSet(KeyConstraints(CatalogTables[i])))

\* A declared field type is a list of an entity type or, under RELATION, of an
\* enumeration type, Optional or Annotated or not.
IsListRelationship(T) ==
    /\ get_field_properties(T).plain_type.k = "list"
    /\ \/ is_entity_type(get_field_properties(T).plain_type.e)
       \/ /\ opts.enum_mode = "RELATION"
          /\ is_type_enum(get_field_properties(T).plain_type.e)

\* The table of an entity in the catalog.
EntityTable(c) ==
    CatalogTables[CHOOSE i \in DOMAIN CatalogTables :
                      CatalogTables[i].name = create_qualified_id(c.mod, c.name)]

\* The columns of the table of entity c that field f produced.
ColumnsOfField(c, f) ==
    {k \in DOMAIN EntityTable(c).columns : EntityTable(c).columns[k].name = f.name}

\* The join tables of the catalog that field f of entity c produced.
JoinTablesOfField(c, f) ==
    {i \in DOMAIN CatalogTables :
        \E b \in EnumClasses \cup DataClasses :
            CatalogTables[i].name
                = create_qualified_id(c.mod,
                      TablePrefix(c) \o "_" \o f.name \o "_" \o b.name)}

\* The call failed while it converted class c.
FailedOn(c) == pc = "failed" /\ "cls" \in DOMAIN error /\ error.cls = c

\* C9: a field of an entity produces no column in the owning table and exactly
\* one join table if and only if its type is a list of an entity type or, under
\* RELATION, of an enumeration type; every other field produces exactly one
\* column and no join table; an Optional or Annotated list is a list here, so the
\* conversion of the owning entity does not fail on it.
C9_RelationshipIffList ==
    \A c \in SeqToSet(table_types) :
        \A f \in SeqToSet(dataclass_fields(c)) :
            IF IsListRelationship(f.type)
            THEN /\ ~FailedOn(c)
                 /\ Returned => /\ ColumnsOfField(c, f) = {}
                                /\ Cardinality(JoinTablesOfField(c, f)) = 1
            ELSE Returned => /\ Cardinality(ColumnsOfField(c, f)) = 1
                             /\ JoinTablesOfField(c, f) = {}

\* The join table the relationship field f of entity A with element type B is
\* to produce, B's key being the column key_name of type key_type.
ExpectedJoinTable(A, f, B, key_name, key_type) ==
    [ t |-> "table",
      name |-> create_qualified_id(A.mod, TablePrefix(A) \o "_" \o f \o "_" \o B.name),
      columns |->
        << [t |-> "column", name |-> "uuid", data_type |-> SqlUuidType,
            nullable |-> FALSE, default |-> None, identity |-> FALSE],
           [t |-> "column", name |-> TablePrefix(A) \o "_" \o f,
            data_type |-> member_to_sql_data_type(dataclass_primary_key_type(A), Cls(A)),
            nullable |-> FALSE, default |-> None, identity |-> FALSE],
           [t |-> "column", name |-> TablePrefix(B) \o "_" \o key_name,
            data_type |-> key_type,
            nullable |-> FALSE, default |-> None, identity |-> FALSE] >>,
      primary_key |-> <<"uuid">>,
      constraints |->
        << [c |-> "foreign", t |-> "constraint",
            name |-> "jk_" \o TablePrefix(A) \o "_" \o f,
            columns |-> <<TablePrefix(A) \o "_" \o f>>,
            refs |-> << [table |-> create_qualified_id(A.mod, A.name),
                         columns |-> <<dataclass_primary_key_name(A)>>] >>],
           [c |-> "foreign", t |-> "constraint",
            name |-> "jk_" \o TablePrefix(B) \o "_" \o key_name,
            columns |-> <<TablePrefix(B) \o "_" \o key_name>>,
            refs |-> << [table |-> create_qualified_id(B.mod, B.name),
                         columns |-> <<key_name>>] >>] >> ]

\* The catalog holds the expected join table, and no other table of its name.
HoldsJoinTable(expected) ==
    /\ expected \in SeqToSet(CatalogTables)
    /\ Cardinality(TablesNamed(expected.name)) = 1

\* The element class of a list relationship.
ElementClass(T) == get_field_properties(T).plain_type.e.c

MemberCalled == pc = "member"
SimpleCalled == pc = "simple"

IsListOfEntity(T) == is_generic_list(T) /\ is_entity_type(unwrap_generic_list(T))

\* C11: member_to_sql_data_type on list[B], B an entity type, raises the
\* unsupported-type error (TypeError) under array mode ARRAY and under array
\* mode JSON; it never returns an array or a JSON descriptor.
C11_ListOfEntityFails ==
    (MemberCalled /\ IsListOfEntity(call_type))
        => /\ IsErr(call_result)
           /\ call_result.exc = "TypeError"

\* The call on list[Person] under array mode JSON has raised.
C11_ListOfEntityRefusedUnderJson ==
    /\ MemberCalled
    /\ call_type = ListOf(Cls(Person))
    /\ opts.array_mode = "JSON"
    /\ IsErr(call_result)

\* A union all of whose members are entity types.
IsUnionOfEntities(T) ==
    /\ is_type_union(T)
    /\ \A member_type \in SeqToSet(unwrap_union_types(T)) : is_entity_type(member_type)

\* The primary-key types of the members of such a union.
UnionKeyTypes(T) ==
    {dataclass_primary_key_type(member_type.c) :
        member_type \in SeqToSet(unwrap_union_types(T))}

\* C12: member_to_sql_data_type on a union of entity types raises the
\* mismatching-key-types error when the members do not share one
\* primary-key type, and otherwise returns the descriptor of the common
\* primary-key type.
C12_UnionOfEntitiesKeyType ==
    (MemberCalled /\ IsUnionOfEntities(call_type))
        => IF Cardinality(UnionKeyTypes(call_type)) > 1
           THEN call_result = Err("TypeError", "mismatching key types in discriminated union")
           ELSE \A key_type \in UnionKeyTypes(call_type) :
                    call_result = simple_type_to_sql_data_type(key_type)

\* The call on tables.Address | extra.Address, whose keys are int and int32,
\* has raised.
C12_MismatchingKeysRefused ==
    /\ MemberCalled
    /\ call_type = UnionOf(<<Cls(Address), Cls(Address2)>>)
    /\ Cardinality(UnionKeyTypes(call_type)) = 2
    /\ IsErr(call_result)

\* C13: for a type with an entry in the substitution table,
\* simple_type_to_sql_data_type and member_to_sql_data_type return exactly
\* the substituted descriptor, whatever the built-in, enumeration, entity,
\* struct, list or union rule would give.
C13_SubstitutionFirst ==
    ((MemberCalled \/ SimpleCalled) /\ call_type \in DOMAIN opts.substitutions)
        => call_result = opts.substitutions[call_type]

\* simple_type_to_sql_data_type was called on str, which has both a built-in
\* rule and a substitute of another limit, and the substitute came back.
C13_SubstituteReturned ==
    /\ SimpleCalled
    /\ call_type = Prim("str")
    /\ call_type \in DOMAIN opts.substitutions
    /\ opts.substitutions[call_type] # BuiltinRule("str")
    /\ call_result = opts.substitutions[call_type]

\* The narrow unsigned integer types and the width in bytes of the signed
\* integer that holds every value of each: 2 ^ (8 * w) - 1 < 2 ^ (8 * 2 * w - 1).
NarrowUnsigned == {Prim("uint8"), Prim("uint16"), Prim("uint32")}

UnsignedWidth(T) ==
    CASE T = Prim("uint8") -> 1
      [] T = Prim("uint16") -> 2
      [] T = Prim("uint32") -> 4

\* C14: with extra_numeric_types off, uint8, uint16 and uint32 are mapped
\* to the signed integer of the next width: 2, 4 and 8 bytes.
C14_UnsignedWidened ==
    (SimpleCalled /\ ~opts.extra_numeric_types /\ call_type \in NarrowUnsigned)
        => call_result = SqlIntegerType(2 * UnsignedWidth(call_type))

(***************************************************************************)
(* Check constraints of enumeration fields (Spec).                         *)
(***************************************************************************)
CheckConstraints(table) == SelectSeq(table.constraints, LAMBDA k : k.c = "check")

\* The quoted literals of all values of an enumeration.
QuotedValues(e) == [i \in DOMAIN EnumValues(e) |-> "'" \o EnumValues(e)[i] \o "'"]

\* The plain enumeration fields of an entity, with their enumerations.
PlainEnumFieldsOf(c) ==
    {<<e, f>> \in EnumClasses \X {g.name : g \in SeqToSet(dataclass_fields(c))} :
        <<c, f>> \in PlainEnumFields(e)}

\* C15: under enum mode CHECK every plain enumeration field of an entity has a
\* column of the type its value type maps to, and the table of the entity has
\* one Check constraint ch_<table>_<field> restricting the column to the
\* quoted literals of all values of the enumeration, and no other Check
\* constraint; under every other enum mode the table has no Check constraint.
C15_CheckConstraintPerEnumField ==
    Returned =>
        \A c \in SeqToSet(table_types) :
            IF opts.enum_mode = "CHECK"
            THEN /\ \A ef \in PlainEnumFieldsOf(c) :
                        /\ ColumnHasType(c, ef[2],
                               simple_type_to_sql_data_type(enum_value_type(ef[1])))
                        /\ Cardinality({k \in DOMAIN EntityTable(c).constraints :
                               EntityTable(c).constraints[k]
                                   = CheckConstraint(
                                         "ch_" \o TablePrefix(c) \o "_" \o ef[2],
                                         ef[2], QuotedValues(ef[1]))}) = 1
                 /\ Len(CheckConstraints(EntityTable(c)))
                        = Cardinality(PlainEnumFieldsOf(c))
            ELSE Len(CheckConstraints(EntityTable(c))) = 0

\* A catalog was returned under CHECK for EnumTable, whose two enumeration
\* fields have a check constraint each.
C15_EnumTableChecked ==
    /\ Returned
    /\ opts.enum_mode = "CHECK"
    /\ EnumTable \in SeqToSet(table_types)
    /\ Cardinality(PlainEnumFieldsOf(EnumTable)) = 2
    /\ Len(CheckConstraints(EntityTable(EnumTable))) = 2

(***************************************************************************)
(* Extensible enumerations (Spec).                                         *)
(***************************************************************************)
\* Field f of entity c is handled as an extensible enumeration over e: its
\* column has the enumeration key type, its table a foreign key to the id of
\* e's lookup table, and the catalog holds that lookup table.
TreatedAsExtensible(c, f, e) ==
    /\ ColumnHasType(c, f, _enumeration_key_type)
    /\ HasEnumForeignKey(c, f, e)
    /\ TablesNamed(EnumTableName(e)) # {}

\* The fields of entity c, as names with their types out of Optional and of
\* the key tags.
RequiredFields(c) ==
    {<<f.name, f.type>> : f \in SeqToSet(dataclass_fields_as_required(c))}

\* A union without a plain-string member.
IsUnionWithoutStr(T) ==
    /\ is_type_union(T)
    /\ Prim("str") \notin SeqToSet(unwrap_union_types(T))

\* C16: a field is handled as an extensible enumeration (key type in every
\* enum mode, mandatory foreign key, lookup table) exactly when its type is
\* a union of one enumeration type and plain string; a union without a
\* plain-string member, such as a union of two enumeration types, is not.
C16_ExtensibleIffEnumOrStr ==
    Returned =>
        \A c \in SeqToSet(table_types) :
            \A ft \in RequiredFields(c) :
                /\ (\E e \in EnumClasses : <<c, ft[1]>> \in ExtensibleEnumFields(e))
                        => \E e \in EnumClasses : TreatedAsExtensible(c, ft[1], e)
                /\ IsUnionWithoutStr(ft[2])
                        => \A e \in EnumClasses : ~TreatedAsExtensible(c, ft[1], e)

(***************************************************************************)
(* Catalogs of listed entity types (SpecListed).                           *)
(***************************************************************************)
\* The entity types the listed ones reach through field types, themselves
\* included.
ReachableEntities == {c \in Reachable(entity_types) : is_entity_type(Cls(c))}

TableNames == [i \in DOMAIN CatalogTables |-> CatalogTables[i].name]

\* C17: every entity type reachable from the listed ones through field
\* types has its own table in the catalog, listed or not; from Person alone
\* the tables are Address and Person, in this order, and column
\* Person.address has the type of Address's primary key.
C17_ReachableEntitiesHaveTables ==
    Returned =>
        /\ \A c \in ReachableEntities :
                Cardinality(TablesNamed(create_qualified_id(c.mod, c.name))) = 1
        /\ entity_types = {Person} =>
                /\ TableNames = << create_qualified_id("tables", "Address"),
                                    create_qualified_id("tables", "Person") >>
                /\ \E data_type \in CatalogDataTypes :
                        /\ ColumnHasType(Address, dataclass_primary_key_name(Address),
                                         data_type)
                        /\ ColumnHasType(Person, "address", data_type)

\* A catalog was returned for the list that holds Person alone, and it has
\* a table for Address.
C17_AddressTableFromPersonAlone ==
    /\ Returned
    /\ entity_types = {Person}
    /\ Address \in ReachableEntities
    /\ TablesNamed(create_qualified_id("tables", "Address")) # {}

\* The call of dataclasses_to_catalog has ended, with a catalog or an exception.
Ended == pc \in {"done", "failed"}

\* The catalog holds exactly the tables Address and Person, and the table of
\* Person a foreign key from address to Address.id.
AddressAndPersonTables ==
    /\ [i \in DOMAIN CatalogTables |-> CatalogTables[i].name.id] = <<"Address", "Person">>
    /\ \E k \in DOMAIN CatalogTables[2].constraints :
            /\ CatalogTables[2].constraints[k].c = "foreign"
            /\ CatalogTables[2].constraints[k].columns = <<"address">>
            /\ Len(CatalogTables[2].constraints[k].refs) = 1
            /\ CatalogTables[2].constraints[k].refs[1].table = CatalogTables[1].name
            /\ CatalogTables[2].constraints[k].refs[1].columns = <<"id">>

\* C18: with every option at its default, the default namespace mapping
\* included, dataclasses_to_catalog on Address and Person returns a catalog
\* of exactly two tables, Address and Person, and Person has a foreign key
\* from address to Address.id.
C18_DefaultPolicySucceeds ==
    (Ended /\ opts = DefaultOptions /\ namespaces = DefaultNamespaceMapping
           /\ entity_types = {Address, Person})
        => (Returned /\ AddressAndPersonTables)

\* What the claim says of the lookup table of enumeration e.
LookupTableShape(e) ==
    [ t |-> "table", name |-> EnumTableName(e),
      columns |->
        << [t |-> "column", name |-> "id", data_type |-> _enumeration_key_type,
            nullable |-> FALSE, default |-> None, identity |-> TRUE],
           [t |-> "column", name |-> "value",
            data_type |-> SqlVariableCharacterType(ENUM_NAME_LENGTH),
            nullable |-> FALSE, default |-> None, identity |-> FALSE] >>,
      primary_key |-> <<"id">>,
      constraints |->
        << [c |-> "unique", t |-> "constraint", name |-> "uq_" \o e.name,
            columns |-> <<"value">>] >> ]

IsLookupTable(table) == \E e \in EnumClasses : table.name = EnumTableName(e)

IsEntityTable(table) ==
    \E c \in SeqToSet(table_types) : table.name = create_qualified_id(c.mod, c.name)

\* Every lookup table of the catalog has the shape the claim gives.
LookupTablesShaped ==
    \A i \in DOMAIN CatalogTables :
        \A e \in EnumClasses :
            CatalogTables[i].name = EnumTableName(e)
                => CatalogTables[i] = LookupTableShape(e)

\* In a list of tables the lookup tables come after all entity tables.
LookupTablesLast(table_list) ==
    \A i, j \in DOMAIN table_list :
        (IsLookupTable(table_list[i]) /\ IsEntityTable(table_list[j])) => j < i

\* C19: every lookup table has the columns id (identity, not nullable,
\* enumeration key type) and value (not nullable, character type limited to
\* 64), the primary key (id) and the one constraint uq_<enum_name>, a
\* Unique constraint on value; and in the table list of every namespace the
\* lookup tables come after all entity tables.
C19_LookupTablesLastInNamespace ==
    Returned =>
        /\ LookupTablesShaped
        /\ \A n \in DOMAIN catalog : LookupTablesLast(catalog[n].tables)

\* C19, amended: every lookup table has that shape; and in the table list of
\* every module the lookup tables come after all entity tables of the
\* module, which is the table list of the namespace with qualified names.
C19_LookupTablesLastInModule ==
    Returned =>
        /\ LookupTablesShaped
        /\ \A m \in DOMAIN tables : LookupTablesLast(tables[m].defs)
        /\ opts.qualified_names
                => \A n \in DOMAIN catalog : LookupTablesLast(catalog[n].tables)

\* A catalog was returned in which the lookup table of WorkflowState follows
\* the table of EnumTable in the list of their module.
C19_LookupTableAfterEntity ==
    /\ Returned
    /\ \E m \in DOMAIN tables :
        \E i, j \in DOMAIN tables[m].defs :
            /\ j < i
            /\ tables[m].defs[i] = LookupTableShape(WorkflowState)
            /\ tables[m].defs[j].name = create_qualified_id("tables", "EnumTable")

(***************************************************************************)
(* NamespaceMapping (SpecNamespace).                                       *)
(***************************************************************************)
\* NamespaceMapping(dictionary) has returned or raised.
Constructed == pc \in {"constructed", "refused", "got"}

\* Two modules of the dictionary have the same target.
HasSharedTarget(d) ==
    /\ d.given
    /\ \E m1, m2 \in DOMAIN d.items : m1 # m2 /\ d.items[m1] = d.items[m2]

\* C20: NamespaceMapping of a dictionary in which two modules have the same
\* target, the default namespace included, raises at once and leaves no
\* mapping object; with pairwise distinct targets, or without a dictionary,
\* it returns the mapping object of that dictionary.
C20_OneToOneOrRefused ==
    Constructed =>
        IF HasSharedTarget(dictionary)
        THEN /\ IsErr(mapping)
             /\ mapping.exc = "ValueError"
             /\ pc = "refused"
             /\ namespaces = DefaultNamespaceMapping
        ELSE /\ ~IsErr(mapping)
             /\ mapping.dictionary = (IF dictionary.given THEN dictionary.items ELSE <<>>)
             /\ namespaces = mapping.dictionary

\* The construction from a dictionary that maps two modules to the default
\* namespace has raised.
C20_TwoDefaultsRefused ==
    /\ pc = "refused"
    /\ dictionary.given
    /\ \E m1, m2 \in DOMAIN dictionary.items :
            m1 # m2 /\ dictionary.items[m1] = None /\ dictionary.items[m2] = None
    /\ IsErr(mapping)

(***************************************************************************)
(* Construction of the generators (SpecGenerator).                         *)
(***************************************************************************)
\* The constructor of the generator has returned or raised.
GeneratorEnded == pc \in {"generator", "no_generator"}

\* The policies the two dialects do not support.
UnsupportedPolicy(d, options) ==
    CASE d = "mysql" -> \/ options.enum_mode = "TYPE"
                        \/ options.struct_mode = "TYPE"
                        \/ options.array_mode = "ARRAY"
      [] d = "delta" -> \/ options.enum_mode \in {"TYPE", "INLINE", "RELATION"}
                        \/ options.struct_mode = "TYPE"

\* The modes a dialect uses for those left unset.
DialectDefault(d, mode) ==
    CASE d = "mysql" /\ mode = "enum_mode" -> "INLINE"
      [] d = "mysql" /\ mode = "struct_mode" -> "JSON"
      [] d = "mysql" /\ mode = "array_mode" -> "JSON"
      [] d = "delta" /\ mode = "enum_mode" -> "CHECK"
      [] d = "delta" /\ mode = "struct_mode" -> "INLINE"
      [] d = "delta" /\ mode = "array_mode" -> "ARRAY"

\* C21: the constructor of a generator raises FormationError exactly when
\* the requested policy is one the dialect does not support; for every other
\* request, the modes left unset included, it returns a generator whose
\* converter has the requested modes, or the defaults of the dialect for
\* those left unset.
C21_GeneratorRefusesUnsupportedOnly ==
    GeneratorEnded =>
        IF UnsupportedPolicy(dialect, target)
        THEN /\ pc = "no_generator"
             /\ IsErr(output)
             /\ output.exc = "FormationError"
        ELSE /\ pc = "generator"
             /\ \A mode \in {"enum_mode", "struct_mode", "array_mode"} :
                    opts[mode] = IF target[mode] # None THEN target[mode]
                                 ELSE DialectDefault(dialect, mode)

(***************************************************************************)
(* The MySQL upsert statement (SpecUpsert).                                *)
(***************************************************************************)
Quoted(name) == "\"" \o name \o "\""

\* The names of the columns of a table that satisfy a test, in column order.
ColumnNamesWhere(table, Test(_)) ==
    [i \in DOMAIN SelectSeq(table.columns, Test) |-> SelectSeq(table.columns, Test)[i].name]

RECURSIVE CommaList(_, _)
CommaList(items, sep) ==
    IF Len(items) = 0 THEN ""
    ELSE IF Len(items) = 1 THEN Head(items)
    ELSE Head(items) \o sep \o CommaList(Tail(items), sep)

\* The statement the claim describes, for the listed columns and the columns
\* to assign.
UpsertOf(table_text, listed, assigned) ==
    "INSERT INTO " \o table_text \o "\n"
    \o "(" \o CommaList([i \in DOMAIN listed |-> Quoted(listed[i])], ", ")
    \o ") VALUES (" \o CommaList([i \in DOMAIN listed |-> "%s"], ", ") \o ")\n"
    \o "ON DUPLICATE KEY UPDATE\n"
    \o CommaList([i \in DOMAIN assigned |->
                    Quoted(assigned[i]) \o " = VALUES(" \o Quoted(assigned[i]) \o ")"],
                 ",\n")
    \o "\n;"

\* C22: the MySQL upsert statement of a table lists every non-identity column
\* once, in column order, with one %s placeholder each, and its ON DUPLICATE
\* KEY UPDATE clause has one assignment col = VALUES(col) per value (non-key)
\* column, in column order, or the one assignment of the primary key when the
\* table has no value column; it never has the EXCLUDED form.
C22_UpsertStatement ==
    pc = "upsert" =>
        output = UpsertOf(QualifiedIdText(target.name),
                     ColumnNamesWhere(target, LAMBDA column : ~column.identity),
                     IF \E i \in DOMAIN target.columns :
                            target.columns[i].name \notin SeqToSet(target.primary_key)
                     THEN ColumnNamesWhere(target,
                              LAMBDA column : column.name \notin SeqToSet(target.primary_key))
                     ELSE target.primary_key)

(***************************************************************************)
(* Failures of an entity's table (SpecListed).                             *)
(***************************************************************************)
\* C23: a failure raised while the columns or the constraints of an entity's
\* table are built (an unsupported type, enumeration values of several types,
\* a module without a namespace mapping) reaches the caller as an error that
\* identifies the owning entity, and no table is returned.
C23_TableFailureNamesEntity ==
    \A c \in SeqToSet(table_types) :
        (pc = "failed" /\ error = dataclass_to_table(c)) =>
            /\ FailedOn(c)
            /\ catalog = <<>>

(***************************************************************************)
(* The order of the struct types of a namespace (Spec).                    *)
(***************************************************************************)
\* The struct types of the same namespace that the members of st reference by
\* name, directly or as the element type of an array.
StructsReferencedBy(st, ns) ==
    {k \in DOMAIN ns.structs :
        \E m \in DOMAIN st.members :
            \/ st.members[m].data_type = SqlUserDefinedType(ns.structs[k].name)
            \/ st.members[m].data_type
                   = SqlArrayType(SqlUserDefinedType(ns.structs[k].name))}

\* C24: under struct mode TYPE, in every namespace of the catalog each struct
\* type that another struct type references precedes it, also in the one
\* namespace of a catalog without qualified names, where the groups of the
\* modules are concatenated.
C24_ReferencedStructPrecedes ==
    (Returned /\ opts.struct_mode = "TYPE") =>
        \A n \in DOMAIN catalog :
            \A i \in DOMAIN catalog[n].structs :
                \A k \in StructsReferencedBy(catalog[n].structs[i], catalog[n]) : k < i

(***************************************************************************)
(* The column of a field and its rendering (SpecColumn).                   *)
(***************************************************************************)
ColumnMade == pc \in {"column", "rendered"}

\* The field is declared an identity column.
DeclaredIdentity(field) ==
    \E T \in {field.type, IF is_type_optional(field.type)
                           THEN unwrap_optional_type(field.type) ELSE field.type} :
        T.k = "annot" /\ IdentityTag \in SeqToSet(T.meta)

\* C25: the column of a field carries the field's declared default, except
\* that it has no default (None) when the field declares no default, declares
\* None, or is an identity column.
C25_DefaultOmittedForIdentity ==
    ColumnMade =>
        call_result.default =
            IF \/ call_type.default \in {MISSING, None}
               \/ DeclaredIdentity(call_type)
            THEN None
            ELSE IF call_type.default \in IntValues THEN call_type.default
            ELSE "'" \o call_type.default \o "'"

\* C26: a column with the identity flag set is not nullable, whatever the
\* field declares (an identity field declared optional included), and the
\* Delta and the Snowflake rendering of an identity column say that the
\* column does not accept NULL.
C26_IdentityNotNullable ==
    /\ (ColumnMade /\ call_result.identity) => ~call_result.nullable
    /\ (pc = "rendered" /\ call_result.identity) =>
            /\ ~IsErr(output)
            /\ output.nullable = " NOT NULL"

(***************************************************************************)
(* The names of the constraints of a table (Spec).                         *)
(***************************************************************************)
\* C27: in every table of every catalog (the tables of the entities, the
\* lookup tables and the join tables) the names of the constraints are
\* pairwise distinct, under every enum mode and foreign-key policy.
C27_ConstraintNamesDistinct ==
    Returned =>
        \A i \in DOMAIN CatalogTables :
            \A a, b \in DOMAIN CatalogTables[i].constraints :
                CatalogTables[i].constraints[a].name = CatalogTables[i].constraints[b].name
                    => a = b

(***************************************************************************)
(* Annotated types and the skip set (SpecAnnotated).                       *)
(***************************************************************************)
\* The annotation items that are not in the skip set, in order.
Applied(metadata) == SelectSeq(metadata, LAMBDA m : m.tag \notin opts.skip_annotations)

\* The base type has a provisional descriptor: it is str, float, decimal,
\* timestamp or time, or the substitution table has an entry for it.
HasProvisional(base) ==
    \/ base \in {Prim("str"), Prim("float"), Prim("Decimal"), Prim("datetime"), Prim("time")}
    \/ base \in DOMAIN opts.substitutions

\* The items applied to a descriptor one after the other.
RECURSIVE Refined(_, _)
Refined(sql_type, items) ==
    IF Len(items) = 0 \/ IsErr(sql_type) THEN sql_type
    ELSE Refined(parse_meta(sql_type, Head(items)), Tail(items))

\* C28: simple_type_to_sql_data_type on an annotated type passes over the
\* annotation items of the skip set and applies the others in order; when the
\* base type has no provisional descriptor the mapping fails with an
\* unsupported-type error, also when every item is in the skip set, whatever
\* the base type is (an integer, an enumeration, ...).
C28_AnnotatedWithoutProvisionalFails ==
    (pc = "simple" /\ call_type.k = "annot") =>
        IF HasProvisional(call_type.b)
        THEN call_result = Refined(ProvisionalType(call_type.b), Applied(call_type.meta))
        ELSE IsErr(call_result) /\ call_result.exc = "TypeError"

(***************************************************************************)
(* Struct types under struct mode JSON (Spec).                             *)
(***************************************************************************)
StructClasses == {c \in DataClasses \ {Probe} : is_struct_type(Cls(c))}

\* The type is a struct type or a list of a struct type, Optional or not.
InvolvesStruct(T) ==
    \E U \in {get_field_properties(T).plain_type} :
        \/ is_struct_type(U)
        \/ U.k = "list" /\ is_struct_type(U.e)

\* The descriptors that reference the struct type c by its qualified name.
ByQualifiedName(c) ==
    { SqlUserDefinedType(create_qualified_id(c.mod, c.name)),
      SqlArrayType(SqlUserDefinedType(create_qualified_id(c.mod, c.name))) }

\* C29: under struct mode JSON every field whose type involves an embedded
\* composite (a struct type, or a list of one, under either array mode) has
\* the JSON descriptor, and no column and no struct member references a
\* composite type by its qualified name.
C29_StructsAsJson ==
    (Returned /\ opts.struct_mode = "JSON") =>
        /\ \A c \in SeqToSet(table_types) :
              \A f \in SeqToSet(dataclass_fields(c)) :
                  InvolvesStruct(f.type) => ColumnHasType(c, f.name, SqlJsonType)
        /\ \A c \in StructClasses : CatalogDataTypes \cap ByQualifiedName(c) = {}

(***************************************************************************)
(* The configuration over several calls (SpecFrame).                       *)
(***************************************************************************)
\* The result of the function of the last call, on this configuration.
ResultOf(function, typ) ==
    IF function = "simple" THEN simple_type_to_sql_data_type(typ)
    ELSE member_to_sql_data_type(typ, Probe)

\* C30: no sequence of calls of the type-mapping functions changes the
\* configuration of the converter: refining an annotated type whose base type
\* has a substitution leaves the descriptor in the substitution table as it
\* was, so each call returns what it returns on the configuration the
\* converter was constructed with, and the same call made twice returns the
\* same descriptor.
C30_ConfigurationUnchanged ==
    /\ opts = target
    /\ run > 0 => call_result = ResultOf(pc, call_type)
    /\ \A i \in DOMAIN previous :
           (previous[i].function = pc /\ previous[i].type = call_type)
               => previous[i].result = call_result

\* The base type str has a substitution, Annotated[str, MaxLength(8)] was
\* refined from it, and str was mapped afterwards to the substituted
\* descriptor.
C30_BaseMappedAfterRefinement ==
    /\ run = 2
    /\ Prim("str") \in DOMAIN opts.substitutions
    /\ previous = <<[function |-> "simple", type |-> Annot(Prim("str"), <<MaxLength(8)>>),
                     result |-> SqlVariableCharacterType(8)]>>
    /\ pc = "simple"
    /\ call_type = Prim("str")
    /\ call_result = opts.substitutions[Prim("str")]

====
